---- MODULE Spec2Model ----
(***************************************************************************)
(* The real-time relay of the chat gateway (ChatGateway): the connection   *)
(* registry userSockets, room membership and presence, the signal router   *)
(* of onSendText with its dedup cache recentSignals, and the chat and      *)
(* signal paths that wait for the persistence collaborator.                *)
(***************************************************************************)
EXTENDS Integers, Sequences, FiniteSets, TLC

\* ------------------------------------------------------------------ bounds
MaxConns == 2
MaxClock == 2998
MaxMsgs == 1
MaxCloses == 1
MaxDedupConns == 1
MaxDedupMsgs == 2
MaxChatMsgs == 2
MaxSweepMsgs == 3
MaxPairMsgs == 2
MaxCallMsgs == 2
MaxScopeMsgs == 1
MaxRetryMsgs == 3

Conns == 1..MaxConns
Users == {"u1", "u2"}
Rooms == {"r1"}
TickSteps == {999, 1000, 1001}

\* ------------------------------------------------------- program constants
dedupWindowMs == 1000
roomScopedSignals ==
    {"call-accepted", "call-rejected", "call-ended", "offer", "answer", "ice-candidate"}
multiTargetSignals == {"call-request"}
dedupSignals ==
    {"call-request", "call-accepted", "call-rejected", "call-ended", "offer", "answer"}

\* ------------------------------------------------------------------ inputs
Absent == ""

\* The bearer credentials a client may present and what jwtService.verify
\* makes of them: "" is no token, "bad" fails verification, the others verify
\* to a payload that carries the user id in id or in sub.
Tokens == {"", "bad", "tok-u1", "tok-u2"}
NoUser == [set |-> FALSE, id |-> Absent, sub |-> Absent, userId |-> Absent]
verify(token) ==
    CASE token = "tok-u1" -> [set |-> TRUE, id |-> "u1", sub |-> Absent, userId |-> Absent]
      [] token = "tok-u2" -> [set |-> TRUE, id |-> Absent, sub |-> "u2", userId |-> Absent]
      [] OTHER -> NoUser

\* payload.id || payload.sub || payload.userId
userIdOf(u) ==
    IF u.id # Absent THEN u.id ELSE IF u.sub # Absent THEN u.sub ELSE u.userId

\* Signal types as clients send them; toLowerCase maps the upper-case spellings.
SignalTypes == {"call-request", "offer", "OFFER", "ice-candidate", "ping"}
toLowerCase_asSent(s) == s
toLowerCase(s) ==
    CASE s = "OFFER" -> "offer"
      [] s = "CALL-REQUEST" -> "call-request"
      [] OTHER -> s

\* A payload is a string, held as its first 64 characters (head: what
\* slice(0, 64) keeps) and the characters after them (tail). PayloadA and
\* PayloadB are longer than 64 characters and differ only after the 64th.
NoData == [head |-> "", tail |-> ""]
PayloadA == [head |-> "sdp-a", tail |-> "x"]
PayloadB == [head |-> "sdp-a", tail |-> "y"]

SignalBodies ==
    [messageType : {"webrtc_signal"}, signalType : SignalTypes, senderId : {"u1"},
     targetId : {Absent, "u2"}, roomId : Rooms, data : {PayloadA}]
ChatBodies ==
    [messageType : {"text"}, signalType : {Absent}, senderId : {Absent},
     targetId : {Absent}, roomId : Rooms, data : {NoData}]
CallBodies ==
    [messageType : {Absent}, signalType : {"CALL_OFFER"}, senderId : {"u1"},
     targetId : {Absent}, roomId : Rooms, data : {NoData}]
Outcomes == {"resolved", "rejected"}
DedupBodies ==
    [messageType : {"webrtc_signal"}, signalType : {"offer", "OFFER", "ice-candidate", "ping"},
     senderId : Users, targetId : {"u2"}, roomId : Rooms, data : {PayloadA, PayloadB}]
SweepBodies ==
    [messageType : {"webrtc_signal"}, signalType : {"offer", "answer", "ice-candidate"},
     senderId : {"u1"}, targetId : {"u2"}, roomId : Rooms, data : {PayloadA}]
PairBodies ==
    [messageType : {"webrtc_signal"}, signalType : {"call-request", "offer", "ice-candidate"},
     senderId : {"u1"}, targetId : {"u2"}, roomId : Rooms, data : {PayloadA}]
\* Resubmissions of one signal: the spellings of its type and the payloads
\* that agree in their first 64 characters all have one fingerprint.
RetryBodies ==
    [messageType : {"webrtc_signal"}, signalType : {"offer", "OFFER"},
     senderId : {"u1"}, targetId : {"u2"}, roomId : Rooms, data : {PayloadA, PayloadB}]
ScopeBodies ==
    [messageType : {"webrtc_signal"}, signalType : {"offer", "ice-candidate"},
     senderId : {"u1"}, targetId : {Absent, "u2"}, roomId : Rooms, data : {PayloadA}]
NoBody ==
    [messageType |-> Absent, signalType |-> Absent, senderId |-> Absent,
     targetId |-> Absent, roomId |-> Absent, data |-> NoData]
RoomBody(r) == [NoBody EXCEPT !.roomId = r]

\* ------------------------------------------------------------------- state
VARIABLES
    status,         \* per connection: "fresh", "open", "closing" (the transport has
                    \* dropped the socket, handleDisconnect has not run yet), "closed"
    user,           \* client.data.user of each connection
    rooms,          \* socket.rooms of each connection (the room:<roomId> ones)
    userSockets,    \* Map<userId, Set<socketId>>, each set in insertion order
    recentSignals,  \* Map<key, lastSeen>
    now,            \* Date.now()
    pending,        \* persistence calls in flight
    nMsgs,          \* sendText and signal events accepted so far
    nCloses,        \* transport disconnects so far
    delivered,      \* history: fingerprint -> time of its last delivered submission
    last,           \* history: the handler that ran last, its input and its result
    emitted,        \* history: the events the last step emitted
    child,          \* the child document: parent, linkedParents, location
    roomDocs,       \* the room documents of the child, by parent
    requests,       \* ChildService and DangerZoneService calls in flight
    checks,         \* the danger-zone checks started so far, each with its position
    dangerZones,    \* the danger zone documents, in creation order
    dangerZoneEvents, \* the danger zone event documents, in creation order
    alerts          \* history: the alerts attempted so far

svcVars == <<child, roomDocs, requests, checks, dangerZones, dangerZoneEvents, alerts>>

gatewayVars == <<status, user, rooms, userSockets, recentSignals, now, pending,
                 nMsgs, nCloses, delivered>>

vars == <<status, user, rooms, userSockets, recentSignals, now, pending,
          nMsgs, nCloses, delivered, last, emitted, child, roomDocs, requests,
          checks, dangerZones, dangerZoneEvents, alerts>>

RECURSIVE Reverse(_)
Reverse(s) == IF s = <<>> THEN <<>> ELSE Reverse(Tail(s)) \o <<Head(s)>>
Range(s) == {s[i] : i \in 1..Len(s)}
RECURSIVE Without(_, _)
Without(s, x) ==
    IF s = <<>> THEN <<>>
    ELSE IF Head(s) = x THEN Without(Tail(s), x) ELSE <<Head(s)>> \o Without(Tail(s), x)

\* Set.add on an insertion-ordered set
SetAdd(s, x) == IF x \in Range(s) THEN s ELSE Append(s, x)

\* Map.delete
MapDelete(m, k) == [x \in DOMAIN m \ {k} |-> m[x]]
\* Map.set
MapSet(m, k, v) == [x \in DOMAIN m \cup {k} |-> IF x = k THEN v ELSE m[x]]

\* child.location before the first location update
NoLocation == "none"

\* persist: the step called the persistence collaborator. prior: for a routed
\* or absorbed signal, when a signal with its key was last delivered (0: never).
\* member: for a leaveRoom, whether the connection was in the room before it;
\* for a close, whether it was in any room.
\* again: the step before this one handled the same input of the same
\* connection with the same result (see Repeats). id: for a sendText, its
\* number among the accepted events, in the order they were submitted.
\* follows: see FollowsOn. other: see OtherIdentityBefore.
Event(op, c, body, result, persist) ==
    [op |-> op, conn |-> c, body |-> body, result |-> result, persist |-> persist,
     prior |-> 0, member |-> FALSE, again |-> FALSE, id |-> 0, follows |-> FALSE,
     other |-> FALSE]

Init ==
    /\ status = [c \in Conns |-> "fresh"]
    /\ user = [c \in Conns |-> NoUser]
    /\ rooms = [c \in Conns |-> {}]
    /\ userSockets = << >>
    /\ recentSignals = << >>
    /\ now = 1
    /\ pending = {}
    /\ nMsgs = 0
    /\ nCloses = 0
    /\ delivered = << >>
    /\ last = Event("init", 0, NoBody, "none", FALSE)
    /\ emitted = {}
    /\ child = [parent |-> "p0", linkedParents |-> << >>, location |-> NoLocation]
    /\ roomDocs = [p \in {"p0"} |-> [isActive |-> TRUE]]
    /\ requests = {}
    /\ checks = << >>
    /\ dangerZones = << >>
    /\ dangerZoneEvents = << >>
    /\ alerts = {}

\* History only: the step that ran last was op on connection c with this input
\* and this result.
Repeats(op, c, body, result) ==
    last.op = op /\ last.conn = c /\ last.body = body /\ last.result = result

\* History only: the step that ran last routed another signal of connection c
\* to the same targetId, and it went to the connections in to.
FollowsOn(c, body, to) ==
    /\ last.op = "sendText" /\ last.result = "ok" /\ last.conn = c
    /\ last.body.messageType = "webrtc_signal"
    /\ last.body.targetId = body.targetId
    /\ last.body # body
    /\ to # {}
    /\ {e.to : e \in emitted} = to

\* History only: the step that ran last routed a signal with this body that a
\* connection authenticated as another identity than c's had submitted.
OtherIdentityBefore(c, body) ==
    /\ last.op = "sendText" /\ last.result = "ok"
    /\ last.body = body
    /\ last.conn # c
    /\ user[last.conn] # user[c]

\* ---------------------------------------------------------------- transport
\* this.server.sockets.sockets.get(socketId): the sockets the transport holds
liveSocket(c) == status[c] = "open"

\* the members of room:<roomId>
roomMembers(r) == {c \in Conns : liveSocket(c) /\ r \in rooms[c]}

\* this.server.to(room).emit(event, ...)
serverEmit(r, event, how) ==
    {[to |-> c, event |-> event, how |-> how, room |-> r] : c \in roomMembers(r)}

clientEmit_toAll(c, r, event, how) ==
    {[to |-> d, event |-> event, how |-> how, room |-> r] : d \in roomMembers(r)}

\* client.to(room).emit(event, ...): the room without the sending socket
clientEmit(c, r, event, how) ==
    {[to |-> d, event |-> event, how |-> how, room |-> r] : d \in roomMembers(r) \ {c}}

\* ---------------------------------------------------------------- registry
isUserOnline(userId) ==
    userId \in DOMAIN userSockets /\ Len(userSockets[userId]) > 0

unregister_forgets(userId, c) == userSockets

\* this.userSockets.get(userId).delete(client.id), and the entry with it when
\* that leaves the set empty
unregister(userId, c) ==
    LET rest == Without(userSockets[userId], c)
    IN  IF Len(rest) = 0 THEN MapDelete(userSockets, userId)
        ELSE MapSet(userSockets, userId, rest)

handleConnection_sharedSet(c, token) ==
    /\ status[c] = "fresh"
    /\ \A d \in Conns : d < c => status[d] # "fresh"
    /\ status' = [status EXCEPT ![c] = "open"]
    /\ LET payload == verify(token)
           userId == userIdOf(payload)
       IN  IF token # "" /\ payload.set
           THEN /\ user' = [user EXCEPT ![c] = payload]
                /\ userSockets' =
                      IF userId # Absent
                      THEN [u \in DOMAIN userSockets \cup {userId} |->
                              SetAdd(IF u \in DOMAIN userSockets
                                     THEN userSockets[u] ELSE <<>>, c)]
                      ELSE userSockets
           ELSE UNCHANGED <<user, userSockets>>
    /\ last' = Event("connect", c, NoBody, "none", FALSE)
    /\ emitted' = {}
    /\ UNCHANGED <<svcVars, rooms, recentSignals, now, pending, nMsgs, nCloses, delivered>>

\* Socket ids are fresh for every connection; the model hands them out in
\* increasing order, so a larger id connected, and registered, later.
handleConnection(c, token) ==
    /\ status[c] = "fresh"
    /\ \A d \in Conns : d < c => status[d] # "fresh"
    /\ status' = [status EXCEPT ![c] = "open"]
    /\ LET payload == verify(token)
           userId == userIdOf(payload)
       IN  IF token # "" /\ payload.set
           THEN /\ user' = [user EXCEPT ![c] = payload]
                /\ userSockets' =
                      IF userId # Absent
                      THEN MapSet(userSockets, userId,
                                  SetAdd(IF userId \in DOMAIN userSockets
                                         THEN userSockets[userId] ELSE <<>>, c))
                      ELSE userSockets
           ELSE UNCHANGED <<user, userSockets>>
    /\ last' = Event("connect", c, NoBody, "none", FALSE)
    /\ emitted' = {}
    /\ UNCHANGED <<svcVars, rooms, recentSignals, now, pending, nMsgs, nCloses, delivered>>

\* The transport's part of a disconnect: the socket leaves its rooms and the
\* server's socket table before the gateway's handler is called.
socketClose(c) ==
    /\ status[c] = "open"
    /\ nCloses < MaxCloses
    /\ nCloses' = nCloses + 1
    /\ status' = [status EXCEPT ![c] = "closing"]
    /\ rooms' = [rooms EXCEPT ![c] = {}]
    /\ last' = [Event("close", c, NoBody, "none", FALSE) EXCEPT !.member = rooms[c] # {}]
    /\ emitted' = {}
    /\ UNCHANGED <<svcVars, user, userSockets, recentSignals, now, pending, nMsgs, delivered>>

handleDisconnect_cancels(c) ==
    /\ status[c] = "closing"
    /\ status' = [status EXCEPT ![c] = "closed"]
    /\ LET userId == userIdOf(user[c])
       IN  IF user[c].set /\ userId # Absent /\ userId \in DOMAIN userSockets
           THEN userSockets' = unregister(userId, c)
           ELSE UNCHANGED userSockets
    /\ pending' = {p \in pending : p.conn # c}
    /\ last' = Event("disconnect", c, NoBody, "none", FALSE)
    /\ emitted' = {}
    /\ UNCHANGED <<svcVars, user, rooms, recentSignals, now, nMsgs, nCloses, delivered>>

handleDisconnect(c) ==
    /\ status[c] = "closing"
    /\ status' = [status EXCEPT ![c] = "closed"]
    /\ LET userId == userIdOf(user[c])
       IN  IF user[c].set /\ userId # Absent /\ userId \in DOMAIN userSockets
           THEN userSockets' = unregister(userId, c)
           ELSE UNCHANGED userSockets
    /\ last' = Event("disconnect", c, NoBody, "none", FALSE)
    /\ emitted' = {}
    /\ UNCHANGED <<svcVars, user, rooms, recentSignals, now, pending, nMsgs, nCloses, delivered>>

authorized_always(c) == TRUE

\* client.data.user is set
authorized(c) == user[c].set

\* ------------------------------------------------------------------- rooms
onJoinRoom_joinsFirst(c, r) ==
    /\ status[c] = "open"
    /\ rooms' = [rooms EXCEPT ![c] = @ \cup {r}]
    /\ emitted' = {[to |-> d, event |-> "presence", how |-> "joined", room |-> r] :
                      d \in {x \in Conns : liveSocket(x) /\ r \in rooms'[x]}}
    /\ last' = Event("joinRoom", c, RoomBody(r),
                     IF authorized(c) THEN "ok" ELSE "Unauthorized", FALSE)
    /\ UNCHANGED <<svcVars, status, user, userSockets, recentSignals, now, pending,
                   nMsgs, nCloses, delivered>>

onJoinRoom_emitsFirst(c, r) ==
    /\ status[c] = "open"
    /\ IF ~authorized(c)
       THEN /\ last' = Event("joinRoom", c, RoomBody(r), "Unauthorized", FALSE)
            /\ emitted' = {}
            /\ UNCHANGED rooms
       ELSE /\ rooms' = [rooms EXCEPT ![c] = @ \cup {r}]
            /\ emitted' = serverEmit(r, "presence", "joined")
            /\ last' = Event("joinRoom", c, RoomBody(r), "ok", FALSE)
    /\ UNCHANGED <<svcVars, status, user, userSockets, recentSignals, now, pending,
                   nMsgs, nCloses, delivered>>

onJoinRoom(c, r) ==
    /\ status[c] = "open"
    /\ IF ~authorized(c)
       THEN /\ last' = Event("joinRoom", c, RoomBody(r), "Unauthorized", FALSE)
            /\ emitted' = {}
            /\ UNCHANGED rooms
       ELSE /\ rooms' = [rooms EXCEPT ![c] = @ \cup {r}]
            /\ emitted' = {[to |-> d, event |-> "presence", how |-> "joined", room |-> r] :
                              d \in {x \in Conns : liveSocket(x) /\ r \in rooms'[x]}}
            /\ last' = Event("joinRoom", c, RoomBody(r), "ok", FALSE)
    /\ UNCHANGED <<svcVars, status, user, userSockets, recentSignals, now, pending,
                   nMsgs, nCloses, delivered>>

onLeaveRoom_guarded(c, r) ==
    /\ status[c] = "open"
    /\ IF ~authorized(c)
       THEN /\ last' = Event("leaveRoom", c, RoomBody(r), "Unauthorized", FALSE)
            /\ emitted' = {}
            /\ UNCHANGED rooms
       ELSE /\ rooms' = [rooms EXCEPT ![c] = @ \ {r}]
            /\ emitted' = {[to |-> d, event |-> "presence", how |-> "left", room |-> r] :
                              d \in {x \in Conns : liveSocket(x) /\ r \in rooms'[x]}}
            /\ last' = [Event("leaveRoom", c, RoomBody(r), "ok", FALSE)
                            EXCEPT !.member = r \in rooms[c]]
    /\ UNCHANGED <<svcVars, status, user, userSockets, recentSignals, now, pending,
                   nMsgs, nCloses, delivered>>

onLeaveRoom_emitsFirst(c, r) ==
    /\ status[c] = "open"
    /\ rooms' = [rooms EXCEPT ![c] = @ \ {r}]
    /\ emitted' = serverEmit(r, "presence", "left")
    /\ last' = [Event("leaveRoom", c, RoomBody(r), "ok", FALSE)
                    EXCEPT !.member = r \in rooms[c]]
    /\ UNCHANGED <<svcVars, status, user, userSockets, recentSignals, now, pending,
                   nMsgs, nCloses, delivered>>

onLeaveRoom_silent(c, r) ==
    /\ status[c] = "open"
    /\ rooms' = [rooms EXCEPT ![c] = @ \ {r}]
    /\ emitted' = {}
    /\ last' = [Event("leaveRoom", c, RoomBody(r), "ok", FALSE)
                    EXCEPT !.member = r \in rooms[c]]
    /\ UNCHANGED <<svcVars, status, user, userSockets, recentSignals, now, pending,
                   nMsgs, nCloses, delivered>>

onLeaveRoom(c, r) ==
    /\ status[c] = "open"
    /\ rooms' = [rooms EXCEPT ![c] = @ \ {r}]
    /\ emitted' = {[to |-> d, event |-> "presence", how |-> "left", room |-> r] :
                      d \in {x \in Conns : liveSocket(x) /\ r \in rooms'[x]}}
    /\ last' = [Event("leaveRoom", c, RoomBody(r), "ok", FALSE)
                    EXCEPT !.member = r \in rooms[c]]
    /\ UNCHANGED <<svcVars, status, user, userSockets, recentSignals, now, pending,
                   nMsgs, nCloses, delivered>>

\* ------------------------------------------------------------- dedup cache
\* payload.slice(0, 64)
hashPayload(payload) == payload.head

\* `${signalType}|${body.senderId}|${body.targetId}|${body.roomId}|${payloadHash}`
signalKey(signalType, body) ==
    <<signalType, body.senderId, body.targetId, body.roomId,
      IF body.data # NoData THEN hashPayload(body.data) ELSE "" >>

cleanupRecentSignals_never(recent, t) == recent

cleanupRecentSignals_eager(recent, t) ==
    [k \in {x \in DOMAIN recent : ~(t - recent[x] > dedupWindowMs \div 2)} |-> recent[k]]

cleanupRecentSignals(recent, t) ==
    [k \in {x \in DOMAIN recent : ~(t - recent[x] > dedupWindowMs * 2)} |-> recent[k]]

isDuplicateSignal_inclusive(signalType, body) ==
    IF signalType \notin dedupSignals
    THEN [dup |-> FALSE, recent |-> recentSignals]
    ELSE LET key == signalKey(signalType, body)
             lastSeen == IF key \in DOMAIN recentSignals THEN recentSignals[key] ELSE 0
         IN  IF lastSeen # 0 /\ now - lastSeen <= dedupWindowMs
             THEN [dup |-> TRUE, recent |-> recentSignals]
             ELSE [dup |-> FALSE,
                   recent |-> cleanupRecentSignals(MapSet(recentSignals, key, now), now)]

isDuplicateSignal_refreshes(signalType, body) ==
    IF signalType \notin dedupSignals
    THEN [dup |-> FALSE, recent |-> recentSignals]
    ELSE LET key == signalKey(signalType, body)
             lastSeen == IF key \in DOMAIN recentSignals THEN recentSignals[key] ELSE 0
         IN  IF lastSeen # 0 /\ now - lastSeen < dedupWindowMs
             THEN [dup |-> TRUE, recent |-> MapSet(recentSignals, key, now)]
             ELSE [dup |-> FALSE,
                   recent |-> cleanupRecentSignals(MapSet(recentSignals, key, now), now)]

isDuplicateSignal_allTypes(signalType, body) ==
    LET key == signalKey(signalType, body)
        lastSeen == IF key \in DOMAIN recentSignals THEN recentSignals[key] ELSE 0
    IN  IF lastSeen # 0 /\ now - lastSeen < dedupWindowMs
        THEN [dup |-> TRUE, recent |-> recentSignals]
        ELSE [dup |-> FALSE,
              recent |-> cleanupRecentSignals(MapSet(recentSignals, key, now), now)]

\* The answer of isDuplicateSignal and the cache it leaves behind. A key that is
\* not in the map reads as undefined, which the guard treats like a zero time.
isDuplicateSignal(signalType, body) ==
    IF signalType \notin dedupSignals
    THEN [dup |-> FALSE, recent |-> recentSignals]
    ELSE LET key == signalKey(signalType, body)
             lastSeen == IF key \in DOMAIN recentSignals THEN recentSignals[key] ELSE 0
         IN  IF lastSeen # 0 /\ now - lastSeen < dedupWindowMs
             THEN [dup |-> TRUE, recent |-> recentSignals]
             ELSE [dup |-> FALSE,
                   recent |-> cleanupRecentSignals(MapSet(recentSignals, key, now), now)]

\* ------------------------------------------------------------ signal router
\* The loop of sendToUser over the candidates, newest first: the sockets it
\* emits to, in order, and the ids it finds without a socket and drops.
RECURSIVE sendLoop_firstOnly(_, _, _)
sendLoop_firstOnly(candidates, roomName, multi) ==
    IF candidates = <<>> THEN [to |-> <<>>, stale |-> {}]
    ELSE LET socketId == Head(candidates)
             rest == sendLoop_firstOnly(Tail(candidates), roomName, multi)
         IN  IF ~liveSocket(socketId)
             THEN [to |-> rest.to, stale |-> rest.stale \cup {socketId}]
             ELSE IF roomName # Absent /\ roomName \notin rooms[socketId]
             THEN rest
             ELSE [to |-> <<socketId>>, stale |-> {}]

RECURSIVE sendLoop_anyRoom(_, _, _)
sendLoop_anyRoom(candidates, roomName, multi) ==
    IF candidates = <<>> THEN [to |-> <<>>, stale |-> {}]
    ELSE LET socketId == Head(candidates)
             rest == sendLoop_anyRoom(Tail(candidates), roomName, multi)
         IN  IF ~liveSocket(socketId)
             THEN [to |-> rest.to, stale |-> rest.stale \cup {socketId}]
             ELSE IF ~multi
             THEN [to |-> <<socketId>>, stale |-> {}]
             ELSE [to |-> <<socketId>> \o rest.to, stale |-> rest.stale]

RECURSIVE sendLoop(_, _, _)
sendLoop(candidates, roomName, multi) ==
    IF candidates = <<>> THEN [to |-> <<>>, stale |-> {}]
    ELSE LET socketId == Head(candidates)
             rest == sendLoop(Tail(candidates), roomName, multi)
         IN  IF ~liveSocket(socketId)
             THEN [to |-> rest.to, stale |-> rest.stale \cup {socketId}]
             ELSE IF roomName # Absent /\ roomName \notin rooms[socketId]
             THEN rest
             ELSE IF ~multi
             THEN [to |-> <<socketId>>, stale |-> {}]
             ELSE [to |-> <<socketId>> \o rest.to, stale |-> rest.stale]

sendToUser_oldestFirst(userId, roomName, multi) ==
    IF userId \in DOMAIN userSockets /\ Len(userSockets[userId]) > 0
    THEN LET run == sendLoop(userSockets[userId], roomName, multi)
             kept == SelectSeq(userSockets[userId], LAMBDA x : x \notin run.stale)
         IN  [delivered |-> run.to # <<>>,
              to |-> Range(run.to),
              sockets |-> IF Len(kept) = 0 THEN MapDelete(userSockets, userId)
                          ELSE MapSet(userSockets, userId, kept)]
    ELSE [delivered |-> FALSE, to |-> {}, sockets |-> userSockets]

sendToUser_keepsEmpty(userId, roomName, multi) ==
    IF userId \in DOMAIN userSockets /\ Len(userSockets[userId]) > 0
    THEN LET run == sendLoop(Reverse(userSockets[userId]), roomName, multi)
             kept == SelectSeq(userSockets[userId], LAMBDA x : x \notin run.stale)
         IN  [delivered |-> run.to # <<>>,
              to |-> Range(run.to),
              sockets |-> MapSet(userSockets, userId, kept)]
    ELSE [delivered |-> FALSE, to |-> {}, sockets |-> userSockets]

\* sendToUser(userId, event, data, {roomId, multi}): whether it delivered, the
\* sockets it emitted to, and the registry it leaves behind.
sendToUser(userId, roomName, multi) ==
    IF userId \in DOMAIN userSockets /\ Len(userSockets[userId]) > 0
    THEN LET run == sendLoop(Reverse(userSockets[userId]), roomName, multi)
             kept == SelectSeq(userSockets[userId], LAMBDA x : x \notin run.stale)
         IN  [delivered |-> run.to # <<>>,
              to |-> Range(run.to),
              sockets |-> IF Len(kept) = 0 THEN MapDelete(userSockets, userId)
                          ELSE MapSet(userSockets, userId, kept)]
    ELSE [delivered |-> FALSE, to |-> {}, sockets |-> userSockets]

\* History only: the fingerprint of a signal (type without regard to case,
\* sender, target, room, payload prefix) and when it was last delivered.
CanonType(t) == IF t \in {"offer", "OFFER"} THEN "offer" ELSE t
Fingerprint(body) ==
    <<CanonType(body.signalType), body.senderId, body.targetId, body.roomId, body.data.head>>
DedupEligible ==
    {"call-request", "call-accepted", "call-rejected", "call-ended", "offer", "answer"}
priorDelivery(body) ==
    IF Fingerprint(body) \in DOMAIN delivered THEN delivered[Fingerprint(body)] ELSE 0

fallbackEmit_viaServer(c, body) == serverEmit(body.roomId, "newMessage", "fallback")

\* client.to(`room:${body.roomId}`).emit('newMessage', body), when the target
\* was not reached
fallbackEmit(c, body) == clientEmit(c, body.roomId, "newMessage", "fallback")

routeSignal_recordsNothing(c, body) ==
    LET normalizedSignalType == toLowerCase(body.signalType)
        check == isDuplicateSignal(normalizedSignalType, body)
        sent == sendToUser(body.targetId,
                           IF normalizedSignalType \in roomScopedSignals
                           THEN body.roomId ELSE Absent,
                           normalizedSignalType \in multiTargetSignals)
    IN  /\ recentSignals' = recentSignals
        /\ IF check.dup
           THEN /\ last' = [Event("sendText", c, body, "deduped", FALSE)
                               EXCEPT !.prior = priorDelivery(body),
                                      !.id = nMsgs + 1,
                                      !.other = OtherIdentityBefore(c, body)]
                /\ emitted' = {}
                /\ UNCHANGED <<userSockets, delivered>>
           ELSE /\ delivered' =
                      IF CanonType(body.signalType) \in DedupEligible
                      THEN MapSet(delivered, Fingerprint(body), now)
                      ELSE delivered
                /\ IF body.targetId # Absent
                   THEN /\ userSockets' = sent.sockets
                        /\ emitted' =
                              IF sent.delivered
                              THEN {[to |-> d, event |-> "newMessage", how |-> "target",
                                     room |-> body.roomId] : d \in sent.to}
                              ELSE fallbackEmit(c, body)
                   ELSE /\ emitted' = clientEmit(c, body.roomId, "newMessage", "broadcast")
                        /\ UNCHANGED userSockets
                /\ last' = [Event("sendText", c, body, "ok", FALSE)
                               EXCEPT !.prior = priorDelivery(body),
                                      !.again = Repeats("sendText", c, body, "ok"),
                                      !.id = nMsgs + 1,
                                      !.follows = FollowsOn(c, body, {e.to : e \in emitted'})]
        /\ UNCHANGED pending

\* The webrtc_signal branch of onSendText, for an authenticated connection.
routeSignal(c, body) ==
    LET normalizedSignalType == toLowerCase(body.signalType)
        check == isDuplicateSignal(normalizedSignalType, body)
        sent == sendToUser(body.targetId,
                           IF normalizedSignalType \in roomScopedSignals
                           THEN body.roomId ELSE Absent,
                           normalizedSignalType \in multiTargetSignals)
    IN  /\ recentSignals' = check.recent
        /\ IF check.dup
           THEN /\ last' = [Event("sendText", c, body, "deduped", FALSE)
                               EXCEPT !.prior = priorDelivery(body),
                                      !.id = nMsgs + 1,
                                      !.other = OtherIdentityBefore(c, body)]
                /\ emitted' = {}
                /\ UNCHANGED <<userSockets, delivered>>
           ELSE /\ delivered' =
                      IF CanonType(body.signalType) \in DedupEligible
                      THEN MapSet(delivered, Fingerprint(body), now)
                      ELSE delivered
                /\ IF body.targetId # Absent
                   THEN /\ userSockets' = sent.sockets
                        /\ emitted' =
                              IF sent.delivered
                              THEN {[to |-> d, event |-> "newMessage", how |-> "target",
                                     room |-> body.roomId] : d \in sent.to}
                              ELSE fallbackEmit(c, body)
                   ELSE /\ emitted' = clientEmit(c, body.roomId, "newMessage", "broadcast")
                        /\ UNCHANGED userSockets
                /\ last' = [Event("sendText", c, body, "ok", FALSE)
                               EXCEPT !.prior = priorDelivery(body),
                                      !.again = Repeats("sendText", c, body, "ok"),
                                      !.id = nMsgs + 1,
                                      !.follows = FollowsOn(c, body, {e.to : e \in emitted'})]
        /\ UNCHANGED pending

\* --------------------------------------------------- collaborator-facing send
\* The options argument of sendMessageToUser: roomId or none, and multi, which
\* may be left unset.
MultiOptions == {"unset", "true", "false"}
NotifyBody(userId, roomId, multiOpt) ==
    [userId |-> userId, roomId |-> roomId, multi |-> multiOpt]

sendMessageToUser_defaultsToNewest(userId, roomId, multiOpt) ==
    LET sent == sendToUser(userId, roomId, multiOpt = "true")
    IN  /\ userSockets' = sent.sockets
        /\ emitted' = {[to |-> d, event |-> "notification", how |-> "target",
                        room |-> roomId] : d \in sent.to}
        /\ last' = Event("sendMessageToUser", 0, NotifyBody(userId, roomId, multiOpt),
                         IF sent.delivered THEN "true" ELSE "false", FALSE)
        /\ UNCHANGED <<svcVars, status, user, rooms, recentSignals, now, pending,
                       nMsgs, nCloses, delivered>>

\* sendMessageToUser(userId, event, data, options), which hands its arguments
\* to sendToUser: options?.multi ?? true
sendMessageToUser(userId, roomId, multiOpt) ==
    LET sent == sendToUser(userId, roomId, multiOpt # "false")
    IN  /\ userSockets' = sent.sockets
        /\ emitted' = {[to |-> d, event |-> "notification", how |-> "target",
                        room |-> roomId] : d \in sent.to}
        /\ last' = Event("sendMessageToUser", 0, NotifyBody(userId, roomId, multiOpt),
                         IF sent.delivered THEN "true" ELSE "false", FALSE)
        /\ UNCHANGED <<svcVars, status, user, rooms, recentSignals, now, pending,
                       nMsgs, nCloses, delivered>>

\* ------------------------------------------------------------ message events
persistenceCall_coalesced(op, c, body) == [op |-> op, conn |-> c, body |-> body, id |-> 0]

\* A call of the persistence collaborator that the handler awaits. Every
\* invocation of a handler makes its own call: id tells the calls apart.
persistenceCall(op, c, body) == [op |-> op, conn |-> c, body |-> body, id |-> nMsgs + 1]

onSendText_awaitsAll(c, body) ==
    /\ status[c] = "open"
    /\ IF ~authorized(c)
       THEN /\ last' = Event("sendText", c, body, "Unauthorized", FALSE)
            /\ emitted' = {}
            /\ UNCHANGED <<userSockets, recentSignals, pending, nMsgs, delivered>>
       ELSE /\ nMsgs' = nMsgs + 1
            /\ pending' = pending \cup {persistenceCall("sendText", c, body)}
            /\ last' = [Event("sendText", c, body, "awaiting", TRUE)
                            EXCEPT !.id = nMsgs + 1]
            /\ emitted' = {}
            /\ UNCHANGED <<userSockets, recentSignals, delivered>>
    /\ UNCHANGED <<svcVars, status, user, rooms, now, nCloses>>

onSendText(c, body) ==
    /\ status[c] = "open"
    /\ IF ~authorized(c)
       THEN /\ last' = Event("sendText", c, body, "Unauthorized", FALSE)
            /\ emitted' = {}
            /\ UNCHANGED <<userSockets, recentSignals, pending, nMsgs, delivered>>
       ELSE /\ nMsgs' = nMsgs + 1
            /\ IF body.messageType = "webrtc_signal"
               THEN routeSignal(c, body)
               ELSE \* await this.messageService.sendText(body, client.data.user)
                    /\ pending' = pending \cup {persistenceCall("sendText", c, body)}
                    /\ last' = [Event("sendText", c, body, "awaiting", TRUE)
                                    EXCEPT !.id = nMsgs + 1]
                    /\ emitted' = {}
                    /\ UNCHANGED <<userSockets, recentSignals, delivered>>
    /\ UNCHANGED <<svcVars, status, user, rooms, now, nCloses>>

chatEmit_echoesSender(p) ==
    serverEmit(p.body.roomId, "newMessage", "chat")
        \cup {[to |-> p.conn, event |-> "newMessage", how |-> "chat", room |-> p.body.roomId]}

\* this.server.to(`room:${body.roomId}`).emit('newMessage', msg)
chatEmit(p) == serverEmit(p.body.roomId, "newMessage", "chat")

\* The rest of onSendText once the persistence call has settled.
onSendTextResume(p, outcome) ==
    /\ p \in pending /\ p.op = "sendText"
    /\ pending' = pending \ {p}
    /\ IF outcome = "resolved"
       THEN /\ emitted' = chatEmit(p)
            /\ last' = [Event("sendTextDone", p.conn, p.body, "msg", FALSE)
                            EXCEPT !.again = Repeats("sendTextDone", p.conn, p.body, "msg")]
       ELSE /\ emitted' = {}
            /\ last' = Event("sendTextDone", p.conn, p.body, "error", FALSE)
    /\ UNCHANGED <<svcVars, status, user, rooms, userSockets, recentSignals, now,
                   nMsgs, nCloses, delivered>>

onSignal_emitsBeforePersist(c, body) ==
    /\ status[c] = "open"
    /\ IF ~authorized(c)
       THEN /\ last' = Event("signal", c, body, "Unauthorized", FALSE)
            /\ emitted' = {}
            /\ UNCHANGED <<pending, nMsgs>>
       ELSE /\ nMsgs' = nMsgs + 1
            /\ emitted' = clientEmit(c, body.roomId, "signal", "signal")
            /\ pending' = pending \cup {persistenceCall("signal", c, body)}
            /\ last' = Event("signal", c, body, "awaiting", TRUE)
    /\ UNCHANGED <<svcVars, status, user, rooms, userSockets, recentSignals, now,
                   nCloses, delivered>>

onSignal(c, body) ==
    /\ status[c] = "open"
    /\ IF ~authorized(c)
       THEN /\ last' = Event("signal", c, body, "Unauthorized", FALSE)
            /\ UNCHANGED <<pending, nMsgs>>
       ELSE \* await this.messageService.sendSignal({...}, client.data.user)
            /\ nMsgs' = nMsgs + 1
            /\ pending' = pending \cup {persistenceCall("signal", c, body)}
            /\ last' = Event("signal", c, body, "awaiting", TRUE)
    /\ emitted' = {}
    /\ UNCHANGED <<svcVars, status, user, rooms, userSockets, recentSignals, now,
                   nCloses, delivered>>

onSignalResume_emitsAnyway(p, outcome) ==
    /\ p \in pending /\ p.op = "signal"
    /\ pending' = pending \ {p}
    /\ emitted' = clientEmit(p.conn, p.body.roomId, "signal", "signal")
    /\ last' = Event("signalDone", p.conn, p.body,
                     IF outcome = "resolved" THEN "ok" ELSE "error", FALSE)
    /\ UNCHANGED <<svcVars, status, user, rooms, userSockets, recentSignals, now,
                   nMsgs, nCloses, delivered>>

\* The rest of onSignal once the collaborator's call has settled.
onSignalResume(p, outcome) ==
    /\ p \in pending /\ p.op = "signal"
    /\ pending' = pending \ {p}
    /\ IF outcome = "resolved"
       THEN /\ emitted' = clientEmit(p.conn, p.body.roomId, "signal", "signal")
            /\ last' = [Event("signalDone", p.conn, p.body, "ok", FALSE)
                            EXCEPT !.again = Repeats("signalDone", p.conn, p.body, "ok")]
       ELSE /\ emitted' = {}
            /\ last' = Event("signalDone", p.conn, p.body, "error", FALSE)
    /\ UNCHANGED <<svcVars, status, user, rooms, userSockets, recentSignals, now,
                   nMsgs, nCloses, delivered>>

\* -------------------------------------------------------------------- time
Tick(d) ==
    /\ now + d <= MaxClock
    /\ now' = now + d
    /\ last' = Event("tick", 0, NoBody, "none", FALSE)
    /\ emitted' = {}
    /\ UNCHANGED <<svcVars, status, user, rooms, userSockets, recentSignals, pending,
                   nMsgs, nCloses, delivered>>

\* ------------------------------------------------- ChildService: the links
\* The user documents: three parents and an administrator. The child was
\* created by p0, its main parent, and the room of that pair with it.
Accounts == {"p0", "p1", "p2", "adm"}

UserRole == [u \in Accounts |-> IF u = "adm" THEN "ADMIN" ELSE "PARENT"]

QrCodes == {"qr-child", "qr-unknown"}

\* A step of the services: no socket event is emitted.
ServiceEvent(op, body, result) == Event(op, 0, body, result, FALSE)

\* The caller, the parent a call is about, the QR code of a link call, and
\* linkedParents as the step found it.
LinkBody(u, parentId, qrCode) ==
    [userId |-> u, parentId |-> parentId, qrCode |-> qrCode,
     before |-> child.linkedParents]

\* The number of a call in flight, to tell two calls with the same input apart.
FreshRequest ==
    CHOOSE n \in 1..(Cardinality(requests) + 1) : \A r \in requests : r.n # n

\* A call in flight: who called, about which parent or zone, where it stands,
\* and the child document it read.
Request(op, u, parentId, pc) ==
    [n |-> FreshRequest, op |-> op, user |-> u, parentId |-> parentId, pc |-> pc,
     doc |-> child, zone |-> 0]

ServiceStep(op, body, result) ==
    /\ last' = ServiceEvent(op, body, result)
    /\ emitted' = {}
    /\ UNCHANGED gatewayVars

linkParentByQr_skipsLinkedCheck(qrCode, u) ==
    /\ IF qrCode # "qr-child"
       THEN /\ ServiceStep("linkParentByQr", LinkBody(u, u, qrCode), "NotFound")
            /\ UNCHANGED requests
       ELSE IF child.parent = u
       THEN /\ ServiceStep("linkParentByQr", LinkBody(u, u, qrCode), "Forbidden")
            /\ UNCHANGED requests
       ELSE /\ ServiceStep("linkParentByQr", LinkBody(u, u, qrCode), "pending")
            /\ requests' = requests \cup
                   {Request("link", u, u, "save")}
    /\ UNCHANGED <<child, roomDocs, checks, dangerZones, dangerZoneEvents, alerts>>

\* linkParentByQr up to its first write: the child is read by its QR code and
\* the caller compared with the main parent and with linkedParents.
linkParentByQr(qrCode, u) ==
    /\ IF qrCode # "qr-child"
       THEN /\ ServiceStep("linkParentByQr", LinkBody(u, u, qrCode), "NotFound")
            /\ UNCHANGED requests
       ELSE IF child.parent = u
       THEN /\ ServiceStep("linkParentByQr", LinkBody(u, u, qrCode), "Forbidden")
            /\ UNCHANGED requests
       ELSE IF \E i \in 1..Len(child.linkedParents) : child.linkedParents[i] = u
       THEN /\ ServiceStep("linkParentByQr", LinkBody(u, u, qrCode), "Forbidden")
            /\ UNCHANGED requests
       ELSE /\ ServiceStep("linkParentByQr", LinkBody(u, u, qrCode), "pending")
            /\ requests' = requests \cup
                   {Request("link", u, u, "save")}
    /\ UNCHANGED <<child, roomDocs, checks, dangerZones, dangerZoneEvents, alerts>>

\* The role of the caller's user document, then push and child.save(): the
\* save appends the pushed id to the stored array.
linkParentByQrSave(r) ==
    /\ r \in requests /\ r.op = "link" /\ r.pc = "save"
    /\ IF UserRole[r.user] # "PARENT"
       THEN /\ ServiceStep("linkParentByQr", LinkBody(r.user, r.parentId, "qr-child"), "Forbidden")
            /\ requests' = requests \ {r}
            /\ UNCHANGED child
       ELSE /\ ServiceStep("linkSave", LinkBody(r.user, r.parentId, "qr-child"), "pending")
            /\ child' = [child EXCEPT !.linkedParents = Append(@, r.user)]
            /\ requests' = (requests \ {r}) \cup {[r EXCEPT !.pc = "room"]}
    /\ UNCHANGED <<roomDocs, checks, dangerZones, dangerZoneEvents, alerts>>

\* roomModel.create for the pair: a second room of one pair fails on the
\* unique constraint and the error is ignored. Then the answer.
linkParentByQrRoom(r) ==
    /\ r \in requests /\ r.op = "link" /\ r.pc = "room"
    /\ roomDocs' = IF r.user \in DOMAIN roomDocs
                   THEN roomDocs
                   ELSE [p \in DOMAIN roomDocs \cup {r.user} |->
                            IF p = r.user THEN [isActive |-> TRUE] ELSE roomDocs[p]]
    /\ requests' = requests \ {r}
    /\ ServiceStep("linkDone", LinkBody(r.user, r.parentId, "qr-child"), "linked")
    /\ UNCHANGED <<child, checks, dangerZones, dangerZoneEvents, alerts>>

\* unlinkParent up to its write.
unlinkParent(u) ==
    /\ IF child.parent = u
       THEN /\ ServiceStep("unlinkParent", LinkBody(u, u, Absent), "Forbidden")
            /\ UNCHANGED requests
       ELSE IF ~(\E i \in 1..Len(child.linkedParents) : child.linkedParents[i] = u)
       THEN /\ ServiceStep("unlinkParent", LinkBody(u, u, Absent), "Forbidden")
            /\ UNCHANGED requests
       ELSE /\ ServiceStep("unlinkParent", LinkBody(u, u, Absent), "pending")
            /\ requests' = requests \cup
                   {Request("unlink", u, u, "save")}
    /\ UNCHANGED <<child, roomDocs, checks, dangerZones, dangerZoneEvents, alerts>>

\* unlinkSpecificParent up to its write: the caller is the main parent or an
\* administrator, and parentId a linked parent.
unlinkSpecificParent(parentId, u) ==
    /\ IF UserRole[u] # "ADMIN" /\ child.parent # u
       THEN /\ ServiceStep("unlinkSpecificParent", LinkBody(u, parentId, Absent), "Forbidden")
            /\ UNCHANGED requests
       ELSE IF child.parent = parentId
       THEN /\ ServiceStep("unlinkSpecificParent", LinkBody(u, parentId, Absent), "Forbidden")
            /\ UNCHANGED requests
       ELSE IF ~(\E i \in 1..Len(child.linkedParents) : child.linkedParents[i] = parentId)
       THEN /\ ServiceStep("unlinkSpecificParent", LinkBody(u, parentId, Absent), "NotFound")
            /\ UNCHANGED requests
       ELSE /\ ServiceStep("unlinkSpecificParent", LinkBody(u, parentId, Absent), "pending")
            /\ requests' = requests \cup
                   {Request("unlink", u, parentId, "save")}
    /\ UNCHANGED <<child, roomDocs, checks, dangerZones, dangerZoneEvents, alerts>>

\* child.linkedParents = the array read, without parentId; child.save().
unlinkSave(r) ==
    /\ r \in requests /\ r.op = "unlink" /\ r.pc = "save"
    /\ child' = [child EXCEPT !.linkedParents =
                    SelectSeq(r.doc.linkedParents, LAMBDA p : p # r.parentId)]
    /\ requests' = (requests \ {r}) \cup {[r EXCEPT !.pc = "room"]}
    /\ ServiceStep("unlinkSave", LinkBody(r.user, r.parentId, Absent), "pending")
    /\ UNCHANGED <<roomDocs, checks, dangerZones, dangerZoneEvents, alerts>>

\* roomModel.updateOne({parent, child}, {isActive: false}), then the answer.
unlinkRoom(r) ==
    /\ r \in requests /\ r.op = "unlink" /\ r.pc = "room"
    /\ roomDocs' = [p \in DOMAIN roomDocs |->
                      IF p = r.parentId THEN [isActive |-> FALSE] ELSE roomDocs[p]]
    /\ requests' = requests \ {r}
    /\ ServiceStep("unlinkDone", LinkBody(r.user, r.parentId, Absent), "unlinked")
    /\ UNCHANGED <<child, checks, dangerZones, dangerZoneEvents, alerts>>

\* ------------------------------------------------------ DangerZoneService
MaxZones == 1
MaxUpdates == 3
MaxOverlap == 2
MaxAlertZones == 2
MaxAlertUpdates == 1
MaxLinkCalls == 2

\* The places a location update reports, and their distance in metres from
\* the centre of each zone: the park is at the centre of every zone, the gate
\* exactly on the rim of zone 1 and one metre beyond the rim of the others.
Places == {"home", "gate", "park"}

radiusMeters == 100

calculateDistance(place, z) ==
    CASE place = "park" -> 0
      [] place = "gate" -> IF z = 1 THEN 100 ELSE 101
      [] OTHER -> 250

\* The place a removed zone leaves in the collection: ids are never reused.
RemovedZone ==
    [parent |-> Absent, status |-> "REMOVED", notifyOnEntry |-> FALSE,
     notifyOnExit |-> FALSE]

ZoneExists(z) == z \in 1..Len(dangerZones) /\ dangerZones[z].status # "REMOVED"

CheckBody(k, z) == [check |-> k, dangerZone |-> z]

\* create: the zone belongs to the caller, is ACTIVE and names no children,
\* so it applies to every child of its parent.
create(u, notifyOnEntry, notifyOnExit) ==
    /\ dangerZones' = Append(dangerZones,
           [parent |-> u, status |-> "ACTIVE", notifyOnEntry |-> notifyOnEntry,
            notifyOnExit |-> notifyOnExit])
    /\ ServiceStep("create", CheckBody(0, Len(dangerZones) + 1), "ok")
    /\ UNCHANGED <<child, roomDocs, requests, checks, dangerZoneEvents, alerts>>

\* remove up to the deletion of the zone document.
remove(z, u) ==
    /\ z \in 1..Len(dangerZones)
    /\ IF ~ZoneExists(z)
       THEN /\ ServiceStep("remove", CheckBody(0, z), "NotFound")
            /\ UNCHANGED <<dangerZones, requests>>
       ELSE IF UserRole[u] # "ADMIN" /\ dangerZones[z].parent # u
       THEN /\ ServiceStep("remove", CheckBody(0, z), "Forbidden")
            /\ UNCHANGED <<dangerZones, requests>>
       ELSE /\ ServiceStep("remove", CheckBody(0, z), "pending")
            /\ dangerZones' = [dangerZones EXCEPT ![z] = RemovedZone]
            /\ requests' = requests \cup
                   {[Request("remove", u, Absent, "events") EXCEPT !.zone = z]}
    /\ UNCHANGED <<child, roomDocs, checks, dangerZoneEvents, alerts>>

\* deleteMany({dangerZone: id}), the end of remove.
removeEvents(r) ==
    /\ r \in requests /\ r.op = "remove" /\ r.pc = "events"
    /\ dangerZoneEvents' = SelectSeq(dangerZoneEvents, LAMBDA e : e.dangerZone # r.zone)
    /\ requests' = requests \ {r}
    /\ ServiceStep("removeDone", CheckBody(0, r.zone), "ok")
    /\ UNCHANGED <<child, roomDocs, checks, dangerZones, alerts>>

\* --------------------------------------- ChildService: the location update
\* A check that is still running.
Running(k) == checks[k].pc \notin {"done", "failed"}

\* No update and no check in flight.
Settled ==
    /\ \A r \in requests : r.op # "updateLocation"
    /\ \A k \in 1..Len(checks) : ~Running(k)

UpdatesStarted ==
    Len(checks) + Cardinality({r \in requests : r.op = "updateLocation"})

\* updateLocation up to child.save(): the caller is the child itself, one of
\* its parents or an administrator.
updateLocation(u, place) ==
    /\ IF /\ u # "child"
          /\ UserRole[u] # "ADMIN"
          /\ child.parent # u
          /\ ~(\E i \in 1..Len(child.linkedParents) : child.linkedParents[i] = u)
       THEN /\ ServiceStep("updateLocation", CheckBody(0, 0), "Forbidden")
            /\ UNCHANGED <<child, requests>>
       ELSE /\ ServiceStep("updateLocation", CheckBody(0, 0), "pending")
            /\ child' = [child EXCEPT !.location = place]
            /\ requests' = requests \cup {Request("updateLocation", u, Absent, "reread")}
    /\ UNCHANGED <<roomDocs, checks, dangerZones, dangerZoneEvents, alerts>>

\* The child is read again, checkDangerZonesAndNotify is started on that
\* document without being awaited, and the document is returned.
updateLocationReturn(r) ==
    /\ r \in requests /\ r.op = "updateLocation" /\ r.pc = "reread"
    /\ checks' = Append(checks,
           [child |-> child, pc |-> "find", zones |-> << >>, idx |-> 0,
            type |-> Absent, events |-> << >>, ev |-> 0, par |-> 0])
    /\ requests' = requests \ {r}
    /\ ServiceStep("updateLocationDone", CheckBody(Len(checks) + 1, 0), "ok")
    /\ UNCHANGED <<child, roomDocs, dangerZones, dangerZoneEvents, alerts>>

\* ------------------------------------------------------ checkDangerZones
isInsideZone(place, z) == calculateDistance(place, z) <= radiusMeters

\* findOne({child, dangerZone}).sort({createdAt: -1})
EventsOf(z) == SelectSeq(dangerZoneEvents, LAMBDA e : e.dangerZone = z)

wasInsideZone(z) ==
    /\ EventsOf(z) # << >>
    /\ EventsOf(z)[Len(EventsOf(z))].type = "ENTER"

\* After the zone at c.idx: the next zone of the list, or the notifications
\* of the events created, or the end.
Advance(c) ==
    IF c.idx < Len(c.zones)
    THEN [c EXCEPT !.idx = @ + 1, !.pc = "lastEvent"]
    ELSE IF c.events = << >>
    THEN [c EXCEPT !.pc = "done"]
    ELSE [c EXCEPT !.pc = "findOne", !.ev = 1]

\* The ACTIVE zones of the child's parents, as the query returns them.
ActiveZones(c) ==
    SelectSeq([z \in 1..Len(dangerZones) |->
                  [id |-> z, parent |-> dangerZones[z].parent,
                   status |-> dangerZones[z].status,
                   notifyOnEntry |-> dangerZones[z].notifyOnEntry,
                   notifyOnExit |-> dangerZones[z].notifyOnExit]],
              LAMBDA d : /\ d.status = "ACTIVE"
                         /\ d.parent \in {c.child.parent} \cup Range(c.child.linkedParents))

\* checkDangerZones up to the answer of dangerZoneModel.find.
checkDangerZones(k) ==
    /\ k \in 1..Len(checks) /\ checks[k].pc = "find"
    /\ checks' = [checks EXCEPT ![k] =
           IF checks[k].child.location = NoLocation
           THEN [@ EXCEPT !.pc = "done"]
           ELSE Advance([@ EXCEPT !.zones = ActiveZones(checks[k])])]
    /\ ServiceStep("checkDangerZones", CheckBody(k, 0), "found")
    /\ UNCHANGED <<child, roomDocs, requests, dangerZones, dangerZoneEvents, alerts>>

\* The last event of the pair is read and the state change decided.
checkLastEvent(k) ==
    /\ k \in 1..Len(checks) /\ checks[k].pc = "lastEvent"
    /\ LET c == checks[k]
           zone == c.zones[c.idx]
           inside == isInsideZone(c.child.location, zone.id)
           was == wasInsideZone(zone.id)
       IN  /\ checks' = [checks EXCEPT ![k] =
                  IF inside /\ ~was
                  THEN IF zone.notifyOnEntry
                       THEN [c EXCEPT !.pc = "create", !.type = "ENTER"]
                       ELSE Advance(c)
                  ELSE IF ~inside /\ was
                  THEN IF zone.notifyOnExit
                       THEN [c EXCEPT !.pc = "create", !.type = "EXIT"]
                       ELSE Advance(c)
                  ELSE Advance(c)]
           /\ ServiceStep("checkLastEvent", CheckBody(k, zone.id), "read")
    /\ UNCHANGED <<child, roomDocs, requests, dangerZones, dangerZoneEvents, alerts>>

\* dangerZoneEventModel.create: the event of check k for its current zone.
checkCreate(k) ==
    /\ k \in 1..Len(checks) /\ checks[k].pc = "create"
    /\ LET c == checks[k]
           zone == c.zones[c.idx]
       IN  /\ dangerZoneEvents' = Append(dangerZoneEvents,
                  [id |-> <<k, zone.id>>, dangerZone |-> zone.id, type |-> c.type,
                   location |-> c.child.location, notificationSent |-> FALSE])
           /\ checks' = [checks EXCEPT ![k] =
                  Advance([c EXCEPT !.events = Append(@, <<k, zone.id>>)])]
           /\ ServiceStep("checkCreate", CheckBody(k, zone.id), c.type)
    /\ UNCHANGED <<child, roomDocs, requests, dangerZones, alerts>>

\* ------------------------------------------- checkDangerZonesAndNotify
parentIds(c) == <<c.child.parent>> \o c.child.linkedParents

\* dangerZoneService.findOne for the event at c.ev: a zone that is gone makes
\* it throw, outside the try of the parents' loop, and the run ends there.
findOne(k) ==
    /\ k \in 1..Len(checks) /\ checks[k].pc = "findOne"
    /\ LET c == checks[k]
           z == c.events[c.ev][2]
       IN  IF ZoneExists(z)
           THEN /\ checks' = [checks EXCEPT ![k] = [c EXCEPT !.pc = "alert", !.par = 1]]
                /\ ServiceStep("findOne", CheckBody(k, z), "found")
           ELSE /\ checks' = [checks EXCEPT ![k] = [c EXCEPT !.pc = "failed"]]
                /\ ServiceStep("findOne", CheckBody(k, z), "NotFound")
    /\ UNCHANGED <<child, roomDocs, requests, dangerZones, dangerZoneEvents, alerts>>

AlertOutcomes == {"sent", "threw"}

\* One turn of the parents' loop: sendDangerZoneAlert and
\* markNotificationSent inside their try.
sendDangerZoneAlert(k, outcome) ==
    /\ k \in 1..Len(checks) /\ checks[k].pc = "alert"
    /\ LET c == checks[k]
           id == c.events[c.ev]
           parentId == parentIds(c)[c.par]
       IN  /\ alerts' = alerts \cup
                  {[event |-> id, parentId |-> parentId, outcome |-> outcome]}
           /\ dangerZoneEvents' =
                  IF outcome = "sent"
                  THEN [i \in 1..Len(dangerZoneEvents) |->
                           IF dangerZoneEvents[i].id = id
                           THEN [dangerZoneEvents[i] EXCEPT !.notificationSent = TRUE]
                           ELSE dangerZoneEvents[i]]
                  ELSE dangerZoneEvents
           /\ checks' = [checks EXCEPT ![k] =
                  IF c.par < Len(parentIds(c))
                  THEN [c EXCEPT !.par = @ + 1]
                  ELSE IF c.ev < Len(c.events)
                  THEN [c EXCEPT !.pc = "findOne", !.ev = @ + 1]
                  ELSE [c EXCEPT !.pc = "done"]]
           /\ ServiceStep("sendDangerZoneAlert", CheckBody(k, id[2]), outcome)
    /\ UNCHANGED <<child, roomDocs, requests, dangerZones>>

\* A connection that is not authenticated is answered without any state
\* change, so its attempts are not counted against the message budget.
MayAccept(c, budget) == authorized(c) => nMsgs < budget

Next ==
    \/ \E c \in Conns, token \in Tokens : handleConnection(c, token)
    \/ \E c \in Conns : socketClose(c)
    \/ \E c \in Conns : handleDisconnect(c)
    \/ \E c \in Conns, r \in Rooms : onJoinRoom(c, r)
    \/ \E c \in Conns, r \in Rooms : onLeaveRoom(c, r)
    \/ \E c \in Conns, body \in SignalBodies \cup ChatBodies :
          MayAccept(c, MaxMsgs) /\ onSendText(c, body)
    \/ \E p \in pending, outcome \in Outcomes : onSendTextResume(p, outcome)
    \/ \E c \in Conns, body \in CallBodies : MayAccept(c, MaxMsgs) /\ onSignal(c, body)
    \/ \E p \in pending, outcome \in Outcomes : onSignalResume(p, outcome)

\* The gateway with every handler; the clock stands still, so every message
\* of a run is handled within one dedup window.
Spec == Init /\ [][Next]_vars

\* The dedup cache over time: few connections, several signals, a running clock.
DedupConns == 1..MaxDedupConns
NextDedup ==
    \/ \E c \in DedupConns, token \in {"tok-u1", "tok-u2"} : handleConnection(c, token)
    \/ \E c \in DedupConns, r \in Rooms : onJoinRoom(c, r)
    \/ \E c \in DedupConns, body \in DedupBodies :
          MayAccept(c, MaxDedupMsgs) /\ onSendText(c, body)
    \/ \E d \in TickSteps : Tick(d)

SpecDedup == Init /\ [][NextDedup]_vars

\* The chat path with several messages in flight; the clock stands still.
NextChat ==
    \/ \E c \in Conns, token \in {"", "tok-u1", "tok-u2"} : handleConnection(c, token)
    \/ \E c \in Conns, r \in Rooms : onJoinRoom(c, r)
    \/ \E c \in Conns, r \in Rooms : onLeaveRoom(c, r)
    \/ \E c \in Conns, body \in ChatBodies :
          MayAccept(c, MaxChatMsgs) /\ onSendText(c, body)
    \/ \E p \in pending, outcome \in Outcomes : onSendTextResume(p, outcome)

SpecChat == Init /\ [][NextChat]_vars

\* The sweep of the dedup cache: one sender, a few signals, a clock that runs
\* past twice the dedup window.
NextSweep ==
    \/ \E c \in DedupConns : handleConnection(c, "tok-u1")
    \/ \E c \in DedupConns, body \in SweepBodies :
          MayAccept(c, MaxSweepMsgs) /\ onSendText(c, body)
    \/ \E d \in TickSteps : Tick(d)

SpecSweep == Init /\ [][NextSweep]_vars

\* A stream of resubmissions of one signal while the clock runs.
NextRetry ==
    \/ \E c \in DedupConns, token \in {"tok-u1", "tok-u2"} : handleConnection(c, token)
    \/ \E c \in DedupConns, body \in RetryBodies :
          MayAccept(c, MaxRetryMsgs) /\ onSendText(c, body)
    \/ \E d \in TickSteps : Tick(d)

SpecRetry == Init /\ [][NextRetry]_vars

\* Two connections that exchange several signals; the clock stands still.
NextPair ==
    \/ \E c \in Conns, token \in {"tok-u1", "tok-u2"} : handleConnection(c, token)
    \/ \E c \in Conns, r \in Rooms : onJoinRoom(c, r)
    \/ \E c \in Conns, body \in PairBodies :
          MayAccept(c, MaxPairMsgs) /\ onSendText(c, body)

SpecPair == Init /\ [][NextPair]_vars

\* The signal event next to the signal router, with several events in flight.
NextCall ==
    \/ \E c \in Conns, token \in {"", "tok-u1", "tok-u2"} : handleConnection(c, token)
    \/ \E c \in Conns, r \in Rooms : onJoinRoom(c, r)
    \/ \E c \in Conns, body \in PairBodies :
          MayAccept(c, MaxCallMsgs) /\ onSendText(c, body)
    \/ \E c \in Conns, body \in CallBodies : MayAccept(c, MaxCallMsgs) /\ onSignal(c, body)
    \/ \E p \in pending, outcome \in Outcomes : onSignalResume(p, outcome)

SpecCall == Init /\ [][NextCall]_vars

\* The collaborator-facing send against connections that come, join and go.
NextNotify ==
    \/ \E c \in Conns, token \in {"", "tok-u1", "tok-u2"} : handleConnection(c, token)
    \/ \E c \in Conns : socketClose(c)
    \/ \E c \in Conns : handleDisconnect(c)
    \/ \E c \in Conns, r \in Rooms : onJoinRoom(c, r)
    \/ \E c \in Conns, r \in Rooms : onLeaveRoom(c, r)
    \/ \E u \in Users, r \in {Absent} \cup Rooms, m \in MultiOptions :
          sendMessageToUser(u, r, m)

SpecNotify == Init /\ [][NextNotify]_vars

\* Room-scoped signals among connections that join, leave and drop.
NextScope ==
    \/ \E c \in Conns, token \in {"tok-u1", "tok-u2"} : handleConnection(c, token)
    \/ \E c \in Conns : socketClose(c)
    \/ \E c \in Conns : handleDisconnect(c)
    \/ \E c \in Conns, r \in Rooms : onJoinRoom(c, r)
    \/ \E c \in Conns, r \in Rooms : onLeaveRoom(c, r)
    \/ \E c \in Conns, body \in ScopeBodies :
          MayAccept(c, MaxScopeMsgs) /\ onSendText(c, body)

SpecScope == Init /\ [][NextScope]_vars

\* The same connections with the transport's scheduling: a socket that closed
\* has its disconnect handler called.
SpecScopeLive == SpecScope /\ WF_vars(\E c \in Conns : handleDisconnect(c))

\* The location updates one at a time: an update starts when the update and
\* the check before it have ended.
NextZones ==
    \/ \E entry \in BOOLEAN, exit \in BOOLEAN :
          Len(dangerZones) < MaxZones /\ create("p0", entry, exit)
    \/ \E place \in Places :
          Settled /\ UpdatesStarted < MaxUpdates /\ updateLocation("child", place)
    \/ \E r \in requests : updateLocationReturn(r)
    \/ \E k \in 1..Len(checks) : checkDangerZones(k)
    \/ \E k \in 1..Len(checks) : checkLastEvent(k)
    \/ \E k \in 1..Len(checks) : checkCreate(k)
    \/ \E k \in 1..Len(checks) : findOne(k)
    \/ \E k \in 1..Len(checks) : sendDangerZoneAlert(k, "sent")

SpecZones == Init /\ [][NextZones]_vars

\* Location updates that overlap: an update starts while the checks of the
\* updates before it are running.
NextOverlap ==
    \/ \E exit \in BOOLEAN :
          Len(dangerZones) < MaxZones /\ create("p0", TRUE, exit)
    \/ \E place \in {"home", "park"} :
          UpdatesStarted < MaxOverlap /\ updateLocation("child", place)
    \/ \E r \in requests : updateLocationReturn(r)
    \/ \E k \in 1..Len(checks) : checkDangerZones(k)
    \/ \E k \in 1..Len(checks) : checkLastEvent(k)
    \/ \E k \in 1..Len(checks) : checkCreate(k)
    \/ \E k \in 1..Len(checks) : findOne(k)
    \/ \E k \in 1..Len(checks) : sendDangerZoneAlert(k, "sent")

SpecOverlap == Init /\ [][NextOverlap]_vars

\* A second parent links, both parents create zones and remove them, and the
\* child reports its location; a notification may throw.
NextAlert ==
    \/ requests = {} /\ linkParentByQr("qr-child", "p1")
    \/ \E r \in requests : linkParentByQrSave(r)
    \/ \E r \in requests : linkParentByQrRoom(r)
    \/ \E u \in {"p0", "p1"} :
          Len(dangerZones) < MaxAlertZones /\ create(u, TRUE, FALSE)
    \/ \E z \in 1..Len(dangerZones) : remove(z, "p0")
    \/ \E r \in requests : removeEvents(r)
    \/ Settled /\ UpdatesStarted < MaxAlertUpdates /\ updateLocation("child", "park")
    \/ \E r \in requests : updateLocationReturn(r)
    \/ \E k \in 1..Len(checks) : checkDangerZones(k)
    \/ \E k \in 1..Len(checks) : checkLastEvent(k)
    \/ \E k \in 1..Len(checks) : checkCreate(k)
    \/ \E k \in 1..Len(checks) : findOne(k)
    \/ \E k \in 1..Len(checks), outcome \in AlertOutcomes : sendDangerZoneAlert(k, outcome)

SpecAlert == Init /\ [][NextAlert]_vars

\* The link and unlink calls one at a time: a call starts when no call is in
\* flight.
NextFamily ==
    \/ \E qrCode \in QrCodes, u \in Accounts :
          requests = {} /\ linkParentByQr(qrCode, u)
    \/ \E r \in requests : linkParentByQrSave(r)
    \/ \E r \in requests : linkParentByQrRoom(r)
    \/ \E u \in Accounts : requests = {} /\ unlinkParent(u)
    \/ \E parentId \in Accounts, u \in Accounts :
          requests = {} /\ unlinkSpecificParent(parentId, u)
    \/ \E r \in requests : unlinkSave(r)
    \/ \E r \in requests : unlinkRoom(r)

SpecFamily == Init /\ [][NextFamily]_vars


\* Link calls that overlap: the server takes a new request while earlier ones
\* wait for the database, up to MaxLinkCalls calls in flight.
NextLinkRace ==
    \/ \E qrCode \in QrCodes, u \in Accounts :
          Cardinality(requests) < MaxLinkCalls /\ linkParentByQr(qrCode, u)
    \/ \E r \in requests : linkParentByQrSave(r)
    \/ \E r \in requests : linkParentByQrRoom(r)

SpecLinkRace == Init /\ [][NextLinkRace]_vars


\* ------------------------------------------------------------------ claims
\* Connections are numbered in the order they connect, so of two connections of
\* one identity the one with the larger id registered later.
LiveConnsOf(u) ==
    {c \in Conns : status[c] = "open" /\ user[c].set /\ userIdOf(user[c]) = u}
MembersOf(r) == {c \in Conns : status[c] = "open" /\ r \in rooms[c]}
Receivers == {e.to : e \in emitted}
Newest(S) == CHOOSE c \in S : \A d \in S : d <= c
RoomScopedTypes ==
    {"call-accepted", "call-rejected", "call-ended", "offer", "answer", "ice-candidate"}
CandidatesFor(body) ==
    IF CanonType(body.signalType) \in RoomScopedTypes
    THEN {c \in LiveConnsOf(body.targetId) : body.roomId \in rooms[c]}
    ELSE LiveConnsOf(body.targetId)
SignalHandled ==
    /\ last.op = "sendText"
    /\ last.body.messageType = "webrtc_signal"
    /\ last.result \in {"ok", "deduped"}
SignalRouted == SignalHandled /\ last.result = "ok"
\* No signal with the fingerprint of the handled one was delivered within the
\* dedup window before it.
NotDuplicate ==
    \/ CanonType(last.body.signalType) \notin DedupEligible
    \/ last.prior = 0
    \/ now - last.prior >= 1000
\* The connections the selection rule of the router picks for a routed signal.
Selected(c, body) ==
    IF body.targetId = Absent \/ CandidatesFor(body) = {}
    THEN MembersOf(body.roomId) \ {c}
    ELSE IF CanonType(body.signalType) = "call-request"
    THEN CandidatesFor(body)
    ELSE {Newest(CandidatesFor(body))}

\* C1: a call-request (the multi-target type) that is not a duplicate within
\* the dedup window, with a targetId whose identity has N >= 1 live connections,
\* is emitted, as newMessage, to every one of those N connections and to no
\* other connection.
C1_MultiTargetReachesAll ==
    (/\ SignalHandled
     /\ NotDuplicate
     /\ CanonType(last.body.signalType) = "call-request"
     /\ last.body.targetId # Absent
     /\ LiveConnsOf(last.body.targetId) # {})
    => /\ Receivers = LiveConnsOf(last.body.targetId)
       /\ \A e \in emitted : e.event = "newMessage" /\ e.how = "target"
C1_Witness ==
    /\ SignalRouted
    /\ CanonType(last.body.signalType) = "call-request"
    /\ Cardinality(LiveConnsOf(last.body.targetId)) = 2
    /\ Receivers = LiveConnsOf(last.body.targetId)

\* C2: a signal of a type other than call-request that is not a duplicate
\* within the dedup window, with a targetId that has at least one candidate
\* connection (its live connections, for a room-scoped type those that are
\* members of the signal's room), is emitted to exactly one connection: the most
\* recently registered candidate.
C2_SingleTargetIsNewest ==
    (/\ SignalHandled
     /\ NotDuplicate
     /\ CanonType(last.body.signalType) # "call-request"
     /\ last.body.targetId # Absent
     /\ CandidatesFor(last.body) # {})
    => /\ Receivers = {Newest(CandidatesFor(last.body))}
       /\ Cardinality(emitted) = 1
       /\ \A e \in emitted : e.event = "newMessage" /\ e.how = "target"
C2_Witness ==
    /\ SignalRouted
    /\ CanonType(last.body.signalType) = "offer"
    /\ Cardinality(CandidatesFor(last.body)) = 2
    /\ Receivers = {Newest(CandidatesFor(last.body))}

\* C3: a dedup-eligible signal submitted less than dedupWindowMs after a signal
\* with the same fingerprint (type without regard to case, senderId, targetId,
\* roomId, payload) was delivered is answered deduped and emits nothing, neither
\* to the target nor to the room.
C3_DuplicateInWindowAbsorbed ==
    (/\ SignalHandled
     /\ CanonType(last.body.signalType) \in DedupEligible
     /\ last.prior # 0
     /\ now - last.prior < 1000)
    => /\ last.result = "deduped"
       /\ emitted = {}
C3_Witness ==
    /\ SignalHandled
    /\ last.body.signalType = "OFFER"
    /\ last.prior # 0
    /\ now - last.prior = 999
    /\ last.result = "deduped"
    /\ CandidatesFor(last.body) # {}

\* C4: a dedup-eligible signal whose fingerprint was never delivered, or was
\* last delivered dedupWindowMs or more ago (exactly 1000 ms included), is not
\* answered deduped and is emitted to the connections the selection rule picks.
C4_ResubmitAfterWindowDelivered ==
    (/\ SignalHandled
     /\ CanonType(last.body.signalType) \in DedupEligible
     /\ (last.prior = 0 \/ now - last.prior >= 1000))
    => /\ last.result = "ok"
       /\ Receivers = Selected(last.conn, last.body)
C4_Witness ==
    /\ SignalHandled
    /\ CanonType(last.body.signalType) = "offer"
    /\ last.prior # 0
    /\ now - last.prior = 1000
    /\ last.result = "ok"
    /\ CandidatesFor(last.body) # {}
    /\ Receivers = {Newest(CandidatesFor(last.body))}

\* C5: a signal that is not a duplicate within the dedup window, with a
\* targetId that reaches no connection (the target has no live connection, or
\* the type is room-scoped and none of them is in the signal's room), is emitted
\* to every member of the room but the sender, and the answer is ok.
C5_FallbackToRoom ==
    (/\ SignalHandled
     /\ NotDuplicate
     /\ last.body.targetId # Absent
     /\ CandidatesFor(last.body) = {})
    => /\ last.result = "ok"
       /\ Receivers = MembersOf(last.body.roomId) \ {last.conn}
       /\ \A e \in emitted : e.event = "newMessage"
C5_Witness ==
    /\ SignalRouted
    /\ last.body.targetId # Absent
    /\ CandidatesFor(last.body) = {}
    /\ last.conn \in MembersOf(last.body.roomId)
    /\ Receivers # {}
    /\ Receivers = MembersOf(last.body.roomId) \ {last.conn}

\* C6: when handleDisconnect of a connection returns, its id is listed under no
\* identity; if it was the last listed connection of its identity the identity
\* is offline, and otherwise the identity keeps its other connections, in order;
\* the entries of the other identities are as before.
OnlineIn(sockets, u) == u \in DOMAIN sockets /\ Len(sockets[u]) > 0
ListedIn(sockets, u) == IF u \in DOMAIN sockets THEN sockets[u] ELSE <<>>
C6_DisconnectUnregisters ==
    [][last'.op = "disconnect" =>
        LET c == last'.conn
            u == userIdOf(user[c])
        IN  /\ \A v \in DOMAIN userSockets' : c \notin Range(userSockets'[v])
            /\ \A v \in Users \ {u} : ListedIn(userSockets', v) = ListedIn(userSockets, v)
            /\ u \in Users =>
                  /\ ListedIn(userSockets', u) = Without(ListedIn(userSockets, u), c)
                  /\ OnlineIn(userSockets', u) <=> Without(ListedIn(userSockets, u), c) # <<>>
    ]_vars
C6_Witness ==
    /\ last.op = "disconnect"
    /\ user[last.conn].set
    /\ ~isUserOnline(userIdOf(user[last.conn]))
    /\ \E u \in Users : isUserOnline(u)

\* C7: no event of any kind is emitted to a connection whose disconnect
\* handler has returned.
C7_NothingToDisconnected ==
    \A e \in emitted : status[e.to] # "closed"
C7_Witness ==
    /\ last.op = "sendTextDone"
    /\ last.result = "msg"
    /\ status[last.conn] = "closed"
    /\ emitted # {}

\* C8: a sendText or a signal event on a connection without an authenticated
\* identity is answered Unauthorized, emits nothing, does not call the
\* persistence collaborator and leaves the registry, the rooms, the dedup cache
\* and the calls in flight as they were.
C8_UnauthorizedChangesNothing ==
    [][(last'.op \in {"sendText", "signal"} /\ ~user'[last'.conn].set) =>
        /\ last'.result = "Unauthorized"
        /\ emitted' = {}
        /\ ~last'.persist
        /\ UNCHANGED <<status, user, rooms, userSockets, recentSignals, pending, delivered>>
    ]_vars
C8_Witness ==
    /\ last.op = "sendText"
    /\ last.body.messageType = "webrtc_signal"
    /\ CanonType(last.body.signalType) \in DedupEligible
    /\ ~user[last.conn].set
    /\ last.result = "Unauthorized"
    /\ recentSignals # << >>
    /\ MembersOf(last.body.roomId) # {}

\* C9 as stated: a joinRoom of a connection without an authenticated identity
\* succeeds and makes it a member of the room.
C9_AnonymousMayJoin ==
    (last.op = "joinRoom" /\ ~user[last.conn].set)
    => (last.result = "ok" /\ last.body.roomId \in rooms[last.conn])
\* C9 as amended: a connection without an authenticated identity may leave
\* rooms (leaveRoom answers ok) but joinRoom, sendText and signal are answered
\* Unauthorized; it is never a member of a room and no event is emitted to it.
C9_AnonymousMayOnlyLeave ==
    /\ \A c \in Conns : ~user[c].set => rooms[c] = {}
    /\ \A e \in emitted : user[e.to].set
    /\ (last.op \in {"joinRoom", "leaveRoom", "sendText", "signal"} /\ ~user[last.conn].set)
       => last.result = (IF last.op = "leaveRoom" THEN "ok" ELSE "Unauthorized")
C9_Witness ==
    /\ last.op = "leaveRoom"
    /\ ~user[last.conn].set
    /\ last.result = "ok"
    /\ MembersOf(last.body.roomId) # {}

\* C10: a joinRoom on a connection without an authenticated identity is
\* answered Unauthorized, does not add the connection to the room and emits no
\* presence event.
C10_JoinNeedsAuthentication ==
    (last.op = "joinRoom" /\ ~user[last.conn].set)
    => /\ last.result = "Unauthorized"
       /\ last.body.roomId \notin rooms[last.conn]
       /\ emitted = {}
C10_Witness ==
    /\ last.op = "joinRoom"
    /\ ~user[last.conn].set
    /\ last.result = "Unauthorized"
    /\ MembersOf(last.body.roomId) # {}

\* C11: no identity of the registry is mapped to an empty set of connection
\* ids. An identity that is in the map lists at least one id, each of a
\* connection that has connected and whose disconnect handler has not run; an
\* identity with an open authenticated connection is in the map and lists it.
C11_NoEmptyEntry ==
    /\ \A u \in DOMAIN userSockets :
          /\ Len(userSockets[u]) > 0
          /\ \A c \in Range(userSockets[u]) : status[c] \in {"open", "closing"}
    /\ \A u \in Users : \A c \in LiveConnsOf(u) :
          u \in DOMAIN userSockets /\ c \in Range(userSockets[u])
C11_Witness ==
    /\ SignalRouted
    /\ last.body.targetId = "u2"
    /\ "u2" \notin DOMAIN userSockets
    /\ \E c \in Conns : status[c] = "closing" /\ userIdOf(user[c]) = "u2"
    /\ isUserOnline("u1")

\* C12: a connection id is listed under at most one identity and at most once,
\* and every id listed under an identity is that of a connection whose token
\* verified to that identity.
C12_ListedUnderOwnIdentity ==
    /\ \A u \in DOMAIN userSockets : \A i \in 1..Len(userSockets[u]) :
          /\ user[userSockets[u][i]].set
          /\ userIdOf(user[userSockets[u][i]]) = u
          /\ \A j \in 1..Len(userSockets[u]) :
                userSockets[u][j] = userSockets[u][i] => j = i
    /\ \A u, v \in DOMAIN userSockets :
          u # v => Range(userSockets[u]) \cap Range(userSockets[v]) = {}
C12_Witness ==
    /\ last.op = "connect"
    /\ DOMAIN userSockets = {"u1", "u2"}
    /\ userSockets["u1"] # <<>>
    /\ userSockets["u2"] = <<last.conn>>

\* C13: a chat sendText of an authenticated connection is not deduplicated: it
\* always makes its own persistence call, leaves the dedup cache alone and emits
\* nothing yet. When the call succeeds, newMessage is emitted exactly once to
\* every connection that is then a member of the room, the sender included if it
\* is one, and to no other, and the message is the caller's result.
C13_ChatBroadcastOncePerMessage ==
    [][/\ (/\ last'.op = "sendText"
           /\ last'.body.messageType # "webrtc_signal"
           /\ user[last'.conn].set)
          => /\ last'.result = "awaiting"
             /\ last'.persist
             /\ emitted' = {}
             /\ recentSignals' = recentSignals
             /\ \E p \in pending' \ pending :
                   /\ p.conn = last'.conn
                   /\ p.body = last'.body
                   /\ pending' = pending \cup {p}
       /\ (last'.op = "sendTextDone" /\ last'.result = "msg")
          => /\ Receivers' = MembersOf(last.body.roomId)'
             /\ Cardinality(emitted') = Cardinality(Receivers')
             /\ \A e \in emitted' :
                   e.event = "newMessage" /\ e.how = "chat" /\ e.room = last'.body.roomId
             /\ \E p \in pending \ pending' :
                   p.conn = last'.conn /\ p.body = last'.body
      ]_vars
C13_Witness ==
    /\ last.op = "sendTextDone"
    /\ last.result = "msg"
    /\ last.again
    /\ now = 1
    /\ last.conn \in Receivers
    /\ Cardinality(Receivers) = 2

\* C14: when the persistence call of a chat sendText or of a signal event
\* fails, the handler answers with an error, emits nothing, and leaves every
\* connection as connected, as registered and in the rooms it was.
C14_PersistenceFailureStaysWithCaller ==
    [][(last'.op \in {"sendTextDone", "signalDone"} /\ last'.result = "error")
        => /\ emitted' = {}
           /\ \E p \in pending \ pending' :
                 p.conn = last'.conn /\ p.body = last'.body
           /\ UNCHANGED <<status, user, rooms, userSockets, recentSignals>>
      ]_vars
C14_Witness ==
    /\ last.op = "signalDone"
    /\ last.result = "error"
    /\ status[last.conn] = "open"
    /\ isUserOnline(userIdOf(user[last.conn]))
    /\ last.conn \in Range(userSockets[userIdOf(user[last.conn])])
    /\ MembersOf(last.body.roomId) \ {last.conn} # {}

\* C15: a disconnect leaves the persistence calls in flight as they are, and a
\* chat sendText whose call succeeds after its connection has gone is still
\* broadcast, as newMessage, to exactly the connections that are members of the
\* room at that moment; the sender, no longer a member, is not one of them.
C15_InFlightChatSurvivesDisconnect ==
    [][/\ last'.op \in {"close", "disconnect"} => pending' = pending
       /\ (/\ last'.op = "sendTextDone"
           /\ last'.result = "msg"
           /\ status[last'.conn] # "open")
          => /\ Receivers' = MembersOf(last.body.roomId)'
             /\ last'.conn \notin Receivers'
             /\ \A e \in emitted' : e.event = "newMessage" /\ e.how = "chat"
      ]_vars
C15_Witness ==
    /\ last.op = "sendTextDone"
    /\ last.result = "msg"
    /\ status[last.conn] = "closed"
    /\ last.conn \notin Receivers
    /\ Receivers = MembersOf(last.body.roomId)
    /\ \E c \in Receivers : userIdOf(user[c]) # userIdOf(user[last.conn])

\* C16: for a signal of a dedup-eligible type handled at time now, the dedup
\* check answers duplicate exactly when the cache holds its fingerprint with
\* now - lastSeen < dedupWindowMs, and then leaves the cache, that lastSeen
\* included, as it was; otherwise it answers not-duplicate and the cache holds
\* the fingerprint with lastSeen = now.
C16_DedupCheckContract ==
    [][(/\ last'.op = "sendText"
        /\ last'.body.messageType = "webrtc_signal"
        /\ last'.result \in {"ok", "deduped"}
        /\ CanonType(last'.body.signalType) \in DedupEligible)
        => LET k == Fingerprint(last'.body)
               inWindow == k \in DOMAIN recentSignals /\ now - recentSignals[k] < 1000
           IN  /\ (last'.result = "deduped") <=> inWindow
               /\ inWindow => recentSignals' = recentSignals
               /\ ~inWindow => (k \in DOMAIN recentSignals' /\ recentSignals'[k] = now)
      ]_vars
C16_Witness ==
    /\ SignalHandled
    /\ last.result = "deduped"
    /\ Fingerprint(last.body) \in DOMAIN recentSignals
    /\ recentSignals[Fingerprint(last.body)] = now - 999

\* C17 as stated: after a signal of a dedup-eligible type has been handled at
\* time now, whether it was answered as a duplicate or not, the cache holds no
\* entry with now - lastSeen > 2 * dedupWindowMs.
C17_SweptOnEveryCall ==
    (SignalHandled /\ CanonType(last.body.signalType) \in DedupEligible)
    => \A k \in DOMAIN recentSignals : now - recentSignals[k] <= 2000
\* C17 as amended: the sweep runs on the calls of the dedup check that record
\* a fingerprint. After a dedup-eligible signal was answered not-duplicate at
\* time now the cache holds no entry with now - lastSeen > 2 * dedupWindowMs; a
\* call that answers duplicate returns before the sweep and leaves the cache,
\* older entries included, as it was.
C17_SweptWhenRecorded ==
    [][(/\ last'.op = "sendText"
        /\ last'.body.messageType = "webrtc_signal"
        /\ last'.result \in {"ok", "deduped"}
        /\ CanonType(last'.body.signalType) \in DedupEligible)
        => IF last'.result = "ok"
           THEN \A k \in DOMAIN recentSignals' : now - recentSignals'[k] <= 2000
           ELSE recentSignals' = recentSignals
      ]_vars
C17_Witness ==
    /\ SignalRouted
    /\ CanonType(last.body.signalType) \in DedupEligible
    /\ \E k \in DOMAIN delivered :
          k \notin DOMAIN recentSignals /\ now - delivered[k] > 2000
    /\ recentSignals[Fingerprint(last.body)] = now

\* C18: a signal whose type is not dedup-eligible is never answered deduped,
\* however soon after an identical one it comes: it is emitted to the
\* connections the selection rule picks, and handling it leaves the dedup cache
\* as it was.
C18_IneligibleTypesBypassDedup ==
    [][(/\ last'.op = "sendText"
        /\ last'.body.messageType = "webrtc_signal"
        /\ last'.result \in {"ok", "deduped"}
        /\ CanonType(last'.body.signalType) \notin DedupEligible)
        => /\ last'.result = "ok"
           /\ recentSignals' = recentSignals
           /\ Receivers' = Selected(last.conn, last.body)'
      ]_vars
C18_Witness ==
    /\ SignalRouted
    /\ last.body.signalType = "ice-candidate"
    /\ last.again
    /\ CandidatesFor(last.body) # {}
    /\ Receivers = {Newest(CandidatesFor(last.body))}

\* C19: a signal without targetId that is not a duplicate within the dedup
\* window is answered ok and emitted, as newMessage, to every member of its room
\* but the sending connection and to no other connection; the sender does not
\* receive it, member of the room or not.
C19_UntargetedGoesToRoomButSender ==
    (/\ SignalHandled
     /\ NotDuplicate
     /\ last.body.targetId = Absent)
    => /\ last.result = "ok"
       /\ Receivers = MembersOf(last.body.roomId) \ {last.conn}
       /\ last.conn \notin Receivers
       /\ \A e \in emitted :
             e.event = "newMessage" /\ e.how = "broadcast" /\ e.room = last.body.roomId
C19_Witness ==
    /\ SignalRouted
    /\ last.body.targetId = Absent
    /\ last.conn \in MembersOf(last.body.roomId)
    /\ Receivers # {}
    /\ \A e \in emitted : e.how = "broadcast" /\ e.to # last.conn

\* C20: an event for a room (chat newMessage, signal broadcast or fallback,
\* signal, presence) is emitted only to connections that are members of the room
\* at that moment, so none reaches a connection that has left it; and a
\* leaveRoom emits presence 'left' to every member that remains, not to the
\* connection that left.
C20_LeftRoomIsSilent ==
    /\ \A e \in emitted : e.how # "target" => e.room \in rooms[e.to]
    /\ last.op = "leaveRoom"
       => /\ last.body.roomId \notin rooms[last.conn]
          /\ Receivers = MembersOf(last.body.roomId)
          /\ last.conn \notin Receivers
          /\ \A e \in emitted :
                e.event = "presence" /\ e.how = "left" /\ e.room = last.body.roomId
C20_Witness ==
    /\ last.op = "leaveRoom"
    /\ last.member
    /\ user[last.conn].set
    /\ Receivers # {}
    /\ Receivers = MembersOf(last.body.roomId)

\* C21: a joinRoom that is answered ok emits presence 'joined' exactly once to
\* every connection that is a member of the room after the join, the joining
\* connection among them, and to no other connection.
C21_JoinAnnouncedToAllMembers ==
    (last.op = "joinRoom" /\ last.result = "ok")
    => /\ last.body.roomId \in rooms[last.conn]
       /\ Receivers = MembersOf(last.body.roomId)
       /\ last.conn \in Receivers
       /\ Cardinality(emitted) = Cardinality(Receivers)
       /\ \A e \in emitted :
             e.event = "presence" /\ e.how = "joined" /\ e.room = last.body.roomId
C21_Witness ==
    /\ last.op = "joinRoom"
    /\ last.result = "ok"
    /\ last.conn \in Receivers
    /\ Cardinality(Receivers) = 2

\* C22: a signal is delivered within the step that handles its submission, when
\* it is the latest event accepted, and never waits on a call in flight; so the
\* signals of a sender reach the target's connection in the order they were
\* submitted.
C22_SignalsDeliveredInSubmissionOrder ==
    /\ \A e \in emitted :
          e.how \in {"target", "fallback", "broadcast"}
          => (last.op = "sendText" /\ last.result = "ok" /\ last.id = nMsgs)
    /\ (/\ last.op = "sendText"
        /\ last.body.messageType = "webrtc_signal"
        /\ user[last.conn].set)
       => /\ last.result \in {"ok", "deduped"}
          /\ ~last.persist
          /\ last.id = nMsgs
    /\ \A p \in pending : p.body.messageType # "webrtc_signal"
C22_Witness ==
    /\ SignalRouted
    /\ last.follows
    /\ last.id = 2
    /\ \E c \in Conns :
          /\ c # last.conn
          /\ userIdOf(user[c]) = last.body.targetId
          /\ Receivers = {c}

\* C23: a signal is not answered deduped on account of a signal that a
\* connection authenticated as another identity submitted just before it.
C23_NoAbsorptionAcrossIdentities ==
    ~(SignalHandled /\ last.result = "deduped" /\ last.other)

\* C24: a signal event of an authenticated connection first calls the
\* collaborator and emits nothing; when the call succeeds, 'signal' is emitted
\* exactly once to every member of the room but the sender and to no other
\* connection. Neither step is answered deduped, reads or changes the dedup
\* cache, or goes through the registry of an identity.
C24_CallSignalPersistedThenBroadcast ==
    [][/\ (last'.op = "signal" /\ user[last'.conn].set)
          => /\ last'.result = "awaiting"
             /\ last'.persist
             /\ emitted' = {}
             /\ \E p \in pending' \ pending :
                   /\ p.op = "signal" /\ p.conn = last'.conn /\ p.body = last'.body
                   /\ pending' = pending \cup {p}
             /\ UNCHANGED <<recentSignals, userSockets>>
       /\ (last'.op = "signalDone" /\ last'.result = "ok")
          => /\ Receivers' = (MembersOf(last.body.roomId) \ {last.conn})'
             /\ Cardinality(emitted') = Cardinality(Receivers')
             /\ \A e \in emitted' :
                   e.event = "signal" /\ e.how = "signal" /\ e.room = last'.body.roomId
             /\ UNCHANGED <<recentSignals, userSockets>>
       /\ last'.op \in {"signal", "signalDone"} => last'.result # "deduped"
      ]_vars
C24_Witness ==
    /\ last.op = "signalDone"
    /\ last.result = "ok"
    /\ last.again
    /\ last.conn \in MembersOf(last.body.roomId)
    /\ Receivers = MembersOf(last.body.roomId) \ {last.conn}
    /\ Receivers # {}

\* C25: sendMessageToUser emits to the user's live connections, with a roomId
\* option only to those in that room; with multi false to the newest of them
\* alone, with multi true or unset to all of them. It answers true exactly when
\* it emitted to a connection, and emits to no one else: there is no fallback
\* to the room.
NotifyEligible ==
    IF last.body.roomId # Absent
    THEN {c \in LiveConnsOf(last.body.userId) : last.body.roomId \in rooms[c]}
    ELSE LiveConnsOf(last.body.userId)
C25_SendToUserSelection ==
    last.op = "sendMessageToUser"
    => /\ Receivers = (IF NotifyEligible = {} THEN {}
                       ELSE IF last.body.multi = "false" THEN {Newest(NotifyEligible)}
                       ELSE NotifyEligible)
       /\ (last.result = "true") <=> (Receivers # {})
       /\ \A e \in emitted : e.how = "target"
C25_Witness ==
    /\ last.op = "sendMessageToUser"
    /\ last.body.multi = "false"
    /\ last.body.roomId # Absent
    /\ last.result = "true"
    /\ Cardinality(LiveConnsOf(last.body.userId)) = 2
    /\ \E c \in Conns : Receivers = {c} /\ c # Newest(LiveConnsOf(last.body.userId))

\* ------------------------------------------------------------ danger zones
\* Check k ran with zone z in the list its query returned.
AppliesTo(k, z) == \E i \in 1..Len(checks[k].zones) : checks[k].zones[i].id = z

\* The event of the given type that check k recorded for zone z.
Recorded(k, z, type) ==
    \E i \in 1..Len(dangerZoneEvents) :
        /\ dangerZoneEvents[i].id = <<k, z>>
        /\ dangerZoneEvents[i].type = type

\* Update k was processed, zone z applied to it and to the update before it,
\* and the child went from the one side of the zone to the other.
Crossed(k, z, wasIn, isIn) ==
    /\ k > 1 /\ ~Running(k)
    /\ AppliesTo(k - 1, z) /\ AppliesTo(k, z)
    /\ isInsideZone(checks[k - 1].child.location, z) = wasIn
    /\ isInsideZone(checks[k].child.location, z) = isIn

\* C26: for a zone with notifyOnExit, every processed location update that
\* finds the child outside the zone when the update processed before it found
\* the child inside creates an EXIT event for the zone, whatever notifyOnEntry.
C26_ExitEventOnLeaving ==
    \A k \in 1..Len(checks), z \in 1..Len(dangerZones) :
        (Crossed(k, z, TRUE, FALSE) /\ dangerZones[z].notifyOnExit)
            => Recorded(k, z, "EXIT")

\* The first processed update, with zone z applying, found the child inside.
FirstInside(k, z) ==
    /\ k = 1 /\ ~Running(k) /\ AppliesTo(k, z)
    /\ isInsideZone(checks[k].child.location, z)

\* C27: for a zone with notifyOnEntry, every processed location update that
\* moves the child from outside to inside the zone creates an ENTER event, on
\* the first entry and on every re-entry, whatever notifyOnExit.
C27_EnterEventOnEveryEntry ==
    \A k \in 1..Len(checks), z \in 1..Len(dangerZones) :
        ((FirstInside(k, z) \/ Crossed(k, z, FALSE, TRUE)) /\ dangerZones[z].notifyOnEntry)
            => Recorded(k, z, "ENTER")

\* C28: for each child-zone pair the recorded events never hold two
\* consecutive events of one type, so an update that does not change the
\* inside/outside state creates none, however the checks of overlapping
\* location updates interleave.
C28_EventsAlternate ==
    \A z \in 1..Len(dangerZones) :
        \A i \in 1..Len(EventsOf(z)) :
            i > 1 => EventsOf(z)[i - 1].type # EventsOf(z)[i].type

\* An alert for event id was attempted for parentId, whatever came of it.
Attempted(id, parentId) ==
    \E a \in alerts : a.event = id /\ a.parentId = parentId

\* C29: when a danger-zone check and its notifications are over, an alert has
\* been attempted, for every event the check produced, for the main parent and
\* for every linked parent of the child; stated here for the events of zones
\* that still exist. A notification that throws does not stop the others, and
\* the location update has returned the child before any of it.
C29_AlertAttemptedForEveryParent ==
    \A k \in 1..Len(checks) :
        ~Running(k) =>
            \A i \in 1..Len(checks[k].events), p \in Range(parentIds(checks[k])) :
                ZoneExists(checks[k].events[i][2])
                    => Attempted(checks[k].events[i], p)

C31_RoomScopedStaysInRoom ==
    (SignalRouted /\ toLowerCase(last.body.signalType) \in roomScopedSignals)
        => \A e \in emitted :
               e.event = "newMessage" => e.to \in MembersOf(last.body.roomId)

\* A targeted room-scoped signal reached a connection of the target while a
\* newer live connection of the target, outside the room, was passed over.
C31_Witness ==
    /\ SignalRouted
    /\ toLowerCase(last.body.signalType) \in roomScopedSignals
    /\ \E e \in emitted :
           /\ e.how = "target"
           /\ \E d \in LiveConnsOf(last.body.targetId) :
                  d > e.to /\ last.body.roomId \notin rooms[d]

\* ---------------------------------------------------------- atomic routing
\* C32: routing a signal never waits: no sendText call that carries a
\* webrtc_signal is ever in flight, and a dedup-eligible signal is answered
\* deduped, with nothing emitted, exactly when a signal with its fingerprint
\* was delivered less than one window before it. Of two identical eligible
\* signals within the window, however they and the other handlers interleave,
\* the first is delivered and the second deduped.
C32_RoutingIsAtomic ==
    /\ \A p \in pending : p.body.messageType # "webrtc_signal"
    /\ (SignalHandled /\ CanonType(last.body.signalType) \in DedupEligible)
           => /\ (last.result = "deduped")
                     <=> (last.prior # 0 /\ now - last.prior < dedupWindowMs)
              /\ last.result = "deduped" => emitted = {}

\* The second event accepted is a signal absorbed because of the first.
C32_Witness ==
    /\ SignalHandled
    /\ last.result = "deduped"
    /\ last.id = 2
    /\ last.prior # 0
    /\ pending = {}

\* ------------------------------------------------------- the window is fixed
\* C33: the dedup window does not slide. A resubmission of a fingerprint is
\* delivered exactly when no submission of it was delivered before or the
\* last delivered one is at least one window old, however many resubmissions
\* were absorbed in between; an absorbed one leaves lastSeen at the time of
\* the last delivered one.
C33_WindowDoesNotSlide ==
    (SignalHandled /\ CanonType(last.body.signalType) \in DedupEligible)
        => /\ (last.result = "ok")
                  <=> (last.prior = 0 \/ now - last.prior >= dedupWindowMs)
           /\ last.result = "deduped"
                  => recentSignals[Fingerprint(last.body)] = last.prior

\* The third submission of one fingerprint is delivered 1998 ms after the
\* first: the second, absorbed in between, did not move the window.
C33_Witness ==
    /\ SignalRouted
    /\ last.id = 3
    /\ last.prior = 1
    /\ now = 1999
    /\ recentSignals[Fingerprint(last.body)] = now

\* ------------------------------------------------- eviction and the answers
\* The answer of a cache that applies the window rule and never evicts: the
\* history map delivered holds, for every fingerprint, the time of the last
\* submission answered not-duplicate.
ReferenceSaysDuplicate(prior) == prior # 0 /\ now - prior < dedupWindowMs

\* C34: eviction never changes an answer. The cache holds, for every
\* fingerprint, either the entry of the never-evicting reference cache or
\* nothing, and then the reference entry is older than the window; so every
\* dedup check answers as the reference cache does.
C34_EvictionKeepsAnswers ==
    /\ DOMAIN recentSignals \subseteq DOMAIN delivered
    /\ \A k \in DOMAIN delivered :
           IF k \in DOMAIN recentSignals
           THEN recentSignals[k] = delivered[k]
           ELSE now - delivered[k] >= dedupWindowMs
    /\ (SignalHandled /\ CanonType(last.body.signalType) \in DedupEligible)
           => ((last.result = "deduped") <=> ReferenceSaysDuplicate(last.prior))

\* A fingerprint is delivered again after its entry was swept by the
\* recording of another fingerprint more than two windows after it.
C34_Witness ==
    /\ SignalRouted
    /\ last.id = 3
    /\ last.prior # 0
    /\ \E k \in DOMAIN delivered :
           /\ k # Fingerprint(last.body)
           /\ delivered[k] - last.prior > 2 * dedupWindowMs

\* ------------------------------------------------- presence after departure
\* Connection c, a member of a room, stopped being one, by leaveRoom or by
\* closing, while the room has other members.
Departed(c) ==
    /\ last.conn = c
    /\ last.member
    /\ \/ last.op = "leaveRoom" /\ MembersOf(last.body.roomId) # {}
       \/ last.op = "close" /\ \E r \in Rooms : MembersOf(r) # {}

\* The members of the room receive the 'left' presence event of c.
Announced(c) ==
    /\ last.conn = c
    /\ last.op = "leaveRoom"
    /\ MembersOf(last.body.roomId) # {}
    /\ \A d \in MembersOf(last.body.roomId) :
           [to |-> d, event |-> "presence", how |-> "left",
            room |-> last.body.roomId] \in emitted

\* C35 as stated: whenever a member stops being a member of the room, by
\* leaveRoom or by disconnecting, the remaining members eventually receive a
\* 'left' presence event for that connection.
C35_LeftFollowsDeparture == \A c \in Conns : Departed(c) ~> Announced(c)

\* C35: a member that leaves by leaveRoom is announced in that very step: the
\* 'left' presence event goes to exactly the remaining members of the room. A
\* connection that disconnects leaves its rooms without any presence event,
\* neither when the socket closes nor when the disconnect handler runs.
C35_LeftFollowsLeaveRoomOnly ==
    /\ (last.op = "leaveRoom" /\ last.member)
           => emitted = {[to |-> d, event |-> "presence", how |-> "left",
                          room |-> last.body.roomId] :
                             d \in MembersOf(last.body.roomId)}
    /\ last.op \in {"close", "disconnect"} => emitted = {}

\* A member leaves a room by leaveRoom and another member is told.
C35_Witness ==
    /\ last.op = "leaveRoom"
    /\ last.member
    /\ \E d \in MembersOf(last.body.roomId) :
           /\ d # last.conn
           /\ \E e \in emitted : e.to = d /\ e.how = "left"

\* ------------------------------------------------------ the room of a link
\* C36: after every successful linkParentByQr an active room exists for the
\* parent and the child, also when the parent was linked and unlinked before.
C36_ActiveRoomAfterLink ==
    (last.op = "linkDone" /\ last.result = "linked")
        => /\ last.body.userId \in DOMAIN roomDocs
           /\ roomDocs[last.body.userId].isActive

\* ------------------------------------------------------- overlapping links
\* C37: also when link requests of one parent for the child overlap,
\* linkedParents holds that parent once, and at most one of the requests
\* succeeds: a request writes the parent only into a list that is without it.
C37_LinkedOnceUnderOverlap ==
    /\ \A i \in 1..Len(child.linkedParents), j \in 1..Len(child.linkedParents) :
           i # j => child.linkedParents[i] # child.linkedParents[j]
    /\ last.op = "linkSave" => last.body.userId \notin Range(last.body.before)

====
